---- MODULE Spec2Model ----
(***************************************************************************)
(* Member-activity classification and aggregation of the clan dashboard:    *)
(* the timestamp parser (api.py, services/api.py), the classifier and the   *)
(* aggregator in their two copies (analysis.py, services/activity.py).      *)
(*                                                                          *)
(* Python values are encoded as follows.                                    *)
(*   - a dict entry that may be missing, null or set is a record            *)
(*     [tag |-> "missing" | "null" | "val", v |-> value];                   *)
(*   - an Optional result (datetime | None) is a sequence: <<>> is None,    *)
(*     <<x>> is x;                                                          *)
(*   - a float quotient a / b is the exact rational [num |-> a, den |-> b]; *)
(*   - an instant is an integer count of clock ticks, TicksPerDay ticks to  *)
(*     the day; an aware datetime is its wall-clock reading plus its UTC    *)
(*     offset, a naive one has no offset.                                   *)
(***************************************************************************)
EXTENDS Integers, Sequences, FiniteSets, TLC

VARIABLES raw_members,      \* the roster handed to the aggregators
          thresholds,       \* thresholds argument (a dict: key -> days)
          colors,           \* colors argument (a dict: status -> color)
          now,              \* datetime.now(timezone.utc) during the call
          last_changed,     \* classifier argument: Optional datetime
          member_status,    \* result of analysis.classify_member
          activity_status,  \* result of services.activity.classify_activity
          summary,          \* result of analysis.analyze_members
          analysis,         \* result of services.activity.analyze_clan_activity
          member_list,      \* the classified members handed to the segmenters
          min_days,         \* churn-risk filter argument
          max_days,         \* churn-risk filter argument
          periods,          \* retention-rate argument: list of day thresholds
          at_risk,          \* result of analysis.get_at_risk_members
          churn_risk,       \* result of services.activity.get_churn_risk_members
          retention,        \* result of analysis.get_retention_rates
          wom_retention,    \* result of services.activity.calculate_retention_rates
          buckets,          \* result of analysis.get_activity_buckets
          timeline,         \* result of services.activity.get_activity_timeline
          role_groups,      \* result of services.activity.group_by_role
          timestamp,        \* the timestamp handed to the parsers
          parsed,           \* result of api.parse_datetime
          wom_parsed,       \* result of services.api.parse_wom_datetime
          page,             \* what a run of the dashboard page has come to
          hiscores,         \* response of the hiscores endpoint: a list or an error
          activity_feed,    \* response of the activity endpoint: events, newest first
          include_untracked,\* argument of api.WOMClient.get_members
          member_result,    \* result of api.WOMClient.get_members
          upstream,         \* the members the members endpoint holds, in its order
          wrapped,          \* the members endpoint answers {"members": [...]}, not a list
          offset,           \* get_group_members_paginated: offset of the next request
          all_members,      \* get_group_members_paginated: members collected so far
          requests,         \* offsets requested from the members endpoint, in order
          pc                \* get_group_members_paginated: where the call stands

\* arguments and results of the segmenters
segVars == <<member_list, min_days, max_days, periods, at_risk, churn_risk,
             retention, wom_retention, buckets, timeline, role_groups>>

\* argument and results of the timestamp parsers
parseVars == <<timestamp, parsed, wom_parsed>>

\* responses of the API, arguments and result of get_members, and the
\* state of a paginated fetch
clientVars == <<hiscores, activity_feed, include_untracked, member_result,
                upstream, wrapped, offset, all_members, requests, pc>>

vars == <<raw_members, thresholds, colors, now, last_changed,
          member_status, activity_status, summary, analysis,
          segVars, parseVars, page, clientVars>>

----------------------------------------------------------------------------
(* Bounds of the model *)

MaxRoster == 2       \* longest roster
TicksPerDay == 2     \* clock resolution: ticks in one day
MaxNow == 1          \* the clock reads 0..MaxNow ticks
MaxFeed == 3         \* longest activity feed
MaxUpstream == 101   \* most members the members endpoint holds

----------------------------------------------------------------------------
(* Python values *)

None == <<>>
Some(x) == <<x>>

Missing == [tag |-> "missing", v |-> 0]
Null == [tag |-> "null", v |-> 0]
Val(n) == [tag |-> "val", v |-> n]
MissingS == [tag |-> "missing", v |-> ""]
NullS == [tag |-> "null", v |-> ""]
ValS(s) == [tag |-> "val", v |-> s]

\* a response of the API: the decoded body, or the exception _get raised
Body(body) == [ok |-> TRUE, body |-> body, error |-> ""]
Failure(error) == [ok |-> FALSE, body |-> <<>>, error |-> error]

\* d.get(key): a missing key reads as null
Get(field) == IF field.tag = "missing" THEN [field EXCEPT !.tag = "null"] ELSE field
\* d.get(key, default): only a missing key takes the default
GetDefault(field, default) == IF field.tag = "missing" THEN default ELSE field
\* truthiness of a number / of a string
Truthy(x) == x.tag = "val" /\ x.v # 0
TruthyS(x) == x.tag = "val" /\ x.v # ""
\* a or b
Or(a, b) == IF Truthy(a) THEN a ELSE b
OrS(a, b) == IF TruthyS(a) THEN a ELSE b

----------------------------------------------------------------------------
(* Configuration *)

\* config.py
ACTIVITY_THRESHOLDS == [active |-> 7, at_risk |-> 30, inactive |-> 90]
STATUS_COLORS == [active |-> "#2ecc71", at_risk |-> "#f1c40f", inactive |-> "#e67e22",
                  churned |-> "#e74c3c", unknown |-> "#95a5a6"]
\* config/settings.py
SETTINGS_THRESHOLDS == [active |-> 7, at_risk |-> 30, inactive |-> 90, churned |-> 91]
ACTIVITY_COLORS == [active |-> "#10b981", at_risk |-> "#f59e0b", inactive |-> "#f97316",
                    churned |-> "#ef4444", unknown |-> "#6b7280"]

\* colors.get(status, default)
ColorGet(cmap, status, default) ==
    IF status \in DOMAIN cmap THEN cmap[status] ELSE default

----------------------------------------------------------------------------
(* Timestamps.  A timestamp string of the API is modelled by its shape:     *)
(* kind "Z" is an ISO string with a Z suffix, "offset" one with a numeric   *)
(* UTC offset, "naive" one with no zone, "garbage" any text fromisoformat   *)
(* rejects; wall is the wall-clock reading written in the string and off    *)
(* the offset written in it (both in ticks).                                *)

TsZ(w) == [kind |-> "Z", wall |-> w, off |-> 0]
TsOffset(w, o) == [kind |-> "offset", wall |-> w, off |-> o]
TsNaive(w) == [kind |-> "naive", wall |-> w, off |-> 0]
TsGarbage == [kind |-> "garbage", wall |-> 0, off |-> 0]
TsEmpty == [kind |-> "empty", wall |-> 0, off |-> 0]

\* a datetime: wall-clock reading and tzinfo (None, or the UTC offset)
DateTime(w, tz) == [wall |-> w, tzinfo |-> tz]

\* datetime.fromisoformat on a string of the given shape; None stands for ValueError
fromisoformat(ts) ==
    CASE ts.kind = "offset" -> Some(DateTime(ts.wall, Some(ts.off)))
      [] ts.kind = "naive" -> Some(DateTime(ts.wall, None))
      [] OTHER -> None

\* api.parse_datetime; value is a dict entry holding a timestamp string
parse_datetime(value) ==
    IF value.tag # "val" \/ value.v.kind = "empty"
    THEN None
    ELSE IF value.v.kind = "Z"
         THEN fromisoformat(TsOffset(value.v.wall, 0))
         ELSE fromisoformat(value.v)

\* parse_wom_datetime leaving the Z suffix to fromisoformat, which rejects it
parse_wom_datetime_no_z(dt_string) ==
    IF dt_string.tag # "val" \/ dt_string.v.kind = "empty"
    THEN None
    ELSE IF dt_string.v.kind = "Z"
         THEN None
         ELSE fromisoformat(dt_string.v)

\* services.api.parse_wom_datetime
parse_wom_datetime(dt_string) ==
    IF dt_string.tag # "val" \/ dt_string.v.kind = "empty"
    THEN None
    ELSE IF dt_string.v.kind = "Z"
         THEN fromisoformat(TsOffset(dt_string.v.wall, 0))
         ELSE fromisoformat(dt_string.v)

\* the UTC instant of an aware datetime
Instant(dt) == dt.wall - dt.tzinfo[1]

\* TimedeltaDays rounding toward zero
TimedeltaDaysTruncating(a, b) ==
    IF a >= b THEN (a - b) \div TicksPerDay ELSE -((b - a) \div TicksPerDay)

\* (a - b).days for two aware datetimes a, b given as instants: timedelta
\* normalises to days >= floor, 0 <= seconds < 86400
TimedeltaDays(a, b) == (a - b) \div TicksPerDay

----------------------------------------------------------------------------
(* Classifier *)

KeyError == [raised |-> "KeyError"]
ZeroDivisionError == [raised |-> "ZeroDivisionError"]
Raised(r) == "raised" \in DOMAIN r

MemberStatus(status, days_inactive, color) ==
    [status |-> status, days_inactive |-> days_inactive, color |-> color]

\* UnknownStatus falling back to the gray of the untracked members
UnknownStatusOtherGray(cmap) ==
    MemberStatus("unknown", -1, ColorGet(cmap, "unknown", "#6c757d"))

\* the status returned for an absent datetime (analysis.py 28-29)
UnknownStatus(cmap) == MemberStatus("unknown", -1, ColorGet(cmap, "unknown", "#95a5a6"))

\* StatusForDays with exclusive upper bounds
StatusForDaysExclusive(days, th) ==
    IF "active" \notin DOMAIN th THEN "KeyError"
    ELSE IF days < th["active"] THEN "active"
    ELSE IF "at_risk" \notin DOMAIN th THEN "KeyError"
    ELSE IF days < th["at_risk"] THEN "at_risk"
    ELSE IF "inactive" \notin DOMAIN th THEN "KeyError"
    ELSE IF days < th["inactive"] THEN "inactive"
    ELSE "churned"

\* StatusForDays taking a last activity in the future for a churned member
StatusForDaysFutureChurned(days, th) ==
    IF days < 0 THEN "churned"
    ELSE IF "active" \notin DOMAIN th THEN "KeyError"
    ELSE IF days <= th["active"] THEN "active"
    ELSE IF "at_risk" \notin DOMAIN th THEN "KeyError"
    ELSE IF days <= th["at_risk"] THEN "at_risk"
    ELSE IF "inactive" \notin DOMAIN th THEN "KeyError"
    ELSE IF days <= th["inactive"] THEN "inactive"
    ELSE "churned"

\* the threshold ladder of classify_member (analysis.py 37-44); reading a
\* key the dict lacks raises KeyError
StatusForDays(days, th) ==
    IF "active" \notin DOMAIN th THEN "KeyError"
    ELSE IF days <= th["active"] THEN "active"
    ELSE IF "at_risk" \notin DOMAIN th THEN "KeyError"
    ELSE IF days <= th["at_risk"] THEN "at_risk"
    ELSE IF "inactive" \notin DOMAIN th THEN "KeyError"
    ELSE IF days <= th["inactive"] THEN "inactive"
    ELSE "churned"

\* analysis.classify_member, the clock reading passed as t
classify_member(lc, th, cmap, t) ==
    IF lc = None
    THEN UnknownStatus(cmap)
    ELSE LET dt == IF lc[1].tzinfo = None
                   THEN DateTime(lc[1].wall, Some(0))
                   ELSE lc[1]
             days == TimedeltaDays(t, Instant(dt))
             status == StatusForDays(days, th)
         IN  IF status = "KeyError"
             THEN KeyError
             ELSE MemberStatus(status, days, ColorGet(cmap, status, "#95a5a6"))

ActivityStatus(status, days_inactive, last_activity, color, description) ==
    [status |-> status, days_inactive |-> days_inactive, last_activity |-> last_activity,
     color |-> color, description |-> description]

\* the f-string descriptions: the fixed text and the number formatted into it
Description(text, days) == [text |-> text, days |-> days]

\* services.activity.classify_activity, the clock reading passed as t
classify_activity(last_changed_at, th, cmap, t) ==
    IF last_changed_at = None
    THEN ActivityStatus("unknown", -1, None, ColorGet(cmap, "unknown", "#95a5a6"),
                        Description("No activity data", -1))
    ELSE LET dt == IF last_changed_at[1].tzinfo = None
                   THEN DateTime(last_changed_at[1].wall, Some(0))
                   ELSE last_changed_at[1]
             days_inactive == TimedeltaDays(t, Instant(dt))
             result(status, text) ==
                 ActivityStatus(status, days_inactive, Some(dt),
                                ColorGet(cmap, status, "#95a5a6"),
                                Description(text, days_inactive))
         IN  IF "active" \notin DOMAIN th THEN KeyError
             ELSE IF days_inactive <= th["active"] THEN result("active", "Active (d ago)")
             ELSE IF "at_risk" \notin DOMAIN th THEN KeyError
             ELSE IF days_inactive <= th["at_risk"] THEN result("at_risk", "At risk (d inactive)")
             ELSE IF "inactive" \notin DOMAIN th THEN KeyError
             ELSE IF days_inactive <= th["inactive"] THEN result("inactive", "Inactive (d)")
             ELSE result("churned", "Churned (d)")

----------------------------------------------------------------------------
(* Numbers *)

RECURSIVE GCD(_, _)
GCD(a, b) == IF b = 0 THEN a ELSE GCD(b, a % b)

\* the value of a / b for a >= 0, b > 0, in lowest terms
Quot(a, b) ==
    LET g == GCD(a, b)
    IN  [num |-> a \div g, den |-> b \div g]

\* the number 0 (int 0 and float 0.0 compare equal)
Zero == [num |-> 0, den |-> 1]

----------------------------------------------------------------------------
(* Raw roster records *)

NullT == [tag |-> "null", v |-> TsEmpty]
MissingT == [tag |-> "missing", v |-> TsEmpty]
ValT(ts) == [tag |-> "val", v |-> ts]

Player(id, username, displayName, status, exp, ehp, ehb, lastChangedAt, type, build) ==
    [id |-> id, username |-> username, displayName |-> displayName, status |-> status,
     exp |-> exp, ehp |-> ehp, ehb |-> ehb, lastChangedAt |-> lastChangedAt,
     type |-> type, build |-> build]

Membership(role, createdAt) == [role |-> role, createdAt |-> createdAt]

Entry(player, role, membership) ==
    [player |-> player, role |-> role, membership |-> membership]

----------------------------------------------------------------------------
(* Aggregator of analysis.py *)

StatusCounts6 == [active |-> 0, at_risk |-> 0, inactive |-> 0, churned |-> 0,
                  unknown |-> 0, untracked |-> 0]

\* weights of the health score (the same table in both copies)
HealthWeights == [active |-> 100, at_risk |-> 50, inactive |-> 20, churned |-> 0,
                  unknown |-> 25]

\* WeightedSum with the untracked members weighed in like active ones
WeightedSumWithUntracked(counts) ==
    counts.active * 100 + counts.at_risk * 50 + counts.inactive * 20
    + counts.unknown * 25
    + (IF "untracked" \in DOMAIN counts THEN counts.untracked * 100 ELSE 0)

\* sum(counts[s] * weights[s] for s in weights)
WeightedSum(counts) ==
    counts.active * HealthWeights.active + counts.at_risk * HealthWeights.at_risk
    + counts.inactive * HealthWeights.inactive + counts.churned * HealthWeights.churned
    + counts.unknown * HealthWeights.unknown

\* the member appended for an untracked entry (analysis.py 80-93)
UntrackedMember(entry, cmap) ==
    LET player == entry.player
    IN  [username |-> OrS(OrS(Get(player.displayName), Get(player.username)), ValS("Unknown")),
         player_id |-> Get(player.id),
         role |-> OrS(Get(entry.membership.role), GetDefault(entry.role, ValS("member"))),
         xp |-> 0, ehp |-> 0, ehb |-> 0,
         type |-> GetDefault(player.type, ValS("unknown")),
         build |-> GetDefault(player.build, ValS("unknown")),
         status |-> "untracked",
         days_inactive |-> -1,
         color |-> ColorGet(cmap, "untracked", "#6c757d"),
         last_changed |-> None]

\* TrackedMember with the type and build defaults of the untracked branch
TrackedMemberUnknownDefaults(entry, xp, ehp, ehb, status, lc) ==
    LET player == entry.player
    IN  [username |-> OrS(OrS(Get(player.displayName), Get(player.username)), ValS("Unknown")),
         player_id |-> Get(player.id),
         role |-> GetDefault(entry.role, ValS("member")),
         xp |-> xp, ehp |-> ehp, ehb |-> ehb,
         type |-> GetDefault(player.type, ValS("unknown")),
         build |-> GetDefault(player.build, ValS("unknown")),
         status |-> status.status,
         days_inactive |-> status.days_inactive,
         color |-> status.color,
         last_changed |-> lc]

\* the member appended for a tracked entry (analysis.py 109-122)
TrackedMember(entry, xp, ehp, ehb, status, lc) ==
    LET player == entry.player
    IN  [username |-> OrS(OrS(Get(player.displayName), Get(player.username)), ValS("Unknown")),
         player_id |-> Get(player.id),
         role |-> GetDefault(entry.role, ValS("member")),
         xp |-> xp, ehp |-> ehp, ehb |-> ehb,
         type |-> GetDefault(player.type, ValS("regular")),
         build |-> GetDefault(player.build, ValS("main")),
         status |-> status.status,
         days_inactive |-> status.days_inactive,
         color |-> status.color,
         last_changed |-> lc]

\* IsUntracked looking at the status flag alone
IsUntrackedFlagOnly(player) ==
    GetDefault(player.status, ValS("active")) = ValS("untracked")

\* the test of analysis.py line 78
IsUntracked(player) ==
    GetDefault(player.status, ValS("active")) = ValS("untracked") \/ Get(player.exp).tag = "null"

\* AppendMember inserting at the front
PrependMember(members, m) == <<m>> \o members

\* members.append(m)
AppendMember(members, m) == Append(members, m)

\* Accumulate adding the ehp value to the ehb total
AccumulateEhpTwice(totals, xp, ehp, ehb) ==
    [xp |-> totals.xp + xp, ehp |-> totals.ehp + ehp, ehb |-> totals.ehb + ehp]

\* totals["xp"] += xp; totals["ehp"] += ehp; totals["ehb"] += ehb
Accumulate(totals, xp, ehp, ehb) ==
    [xp |-> totals.xp + xp, ehp |-> totals.ehp + ehp, ehb |-> totals.ehb + ehb]

\* one pass of the loop body of analyze_members over entry i; acc holds
\* counts, totals and members, or the exception that ended the loop
RECURSIVE analyze_members_loop(_, _, _, _, _, _)
analyze_members_loop(raw, th, cmap, t, i, acc) ==
    IF i > Len(raw) \/ Raised(acc)
    THEN acc
    ELSE LET entry == raw[i]
             player == entry.player
             xp == Get(player.exp)
         IN  IF IsUntracked(player)
             THEN analyze_members_loop(raw, th, cmap, t, i + 1,
                      [acc EXCEPT !.members = AppendMember(@, UntrackedMember(entry, cmap)),
                                  !.counts.untracked = @ + 1])
             ELSE LET lc == parse_datetime(Get(player.lastChangedAt))
                      status == classify_member(lc, th, cmap, t)
                      ehp == Or(Get(player.ehp), Val(0)).v
                      ehb == Or(Get(player.ehb), Val(0)).v
                  IN  IF Raised(status)
                      THEN status
                      ELSE analyze_members_loop(raw, th, cmap, t, i + 1,
                               [counts |-> [acc.counts EXCEPT ![status.status] = @ + 1],
                                totals |-> Accumulate(acc.totals, xp.v, ehp, ehb),
                                members |-> AppendMember(acc.members,
                                    TrackedMember(entry, xp.v, ehp, ehb, status, lc))])

\* TotalOrOne without the guard
TotalUnguarded(members) == Len(members)

\* len(members) or 1
TotalOrOne(members) == IF Len(members) = 0 THEN 1 ELSE Len(members)

\* TrackedOf taking every member as tracked
TrackedIsTotal(total, counts) == total

\* tracked = total - counts["untracked"]
TrackedOf(total, counts) == total - counts.untracked

\* the health score over the tracked members (analysis.py 128-132)
HealthOf(counts, tracked) ==
    IF tracked > 0 THEN Quot(WeightedSum(counts), tracked) ELSE Zero

\* analysis.analyze_members, the clock reading passed as t
analyze_members(raw, th, cmap, t) ==
    LET acc == analyze_members_loop(raw, th, cmap, t, 1,
                   [counts |-> StatusCounts6,
                    totals |-> [xp |-> 0, ehp |-> 0, ehb |-> 0],
                    members |-> <<>>])
    IN  IF Raised(acc)
        THEN acc
        ELSE LET counts == acc.counts
                 totals == acc.totals
                 total == TotalOrOne(acc.members)
                 tracked == TrackedOf(total, counts)
                 health == HealthOf(counts, tracked)
             IN  IF total = 0
                 THEN ZeroDivisionError   \* v / total in the percentages
                 ELSE [members |-> acc.members,
                       counts |-> counts,
                       percentages |-> [k \in DOMAIN counts |-> Quot(counts[k] * 100, total)],
                       totals |-> totals,
                       averages |-> [k \in DOMAIN totals |->
                                        IF tracked > 0 THEN Quot(totals[k], tracked) ELSE Zero],
                       health_score |-> health,
                       total_members |-> total,
                       tracked_members |-> tracked]

----------------------------------------------------------------------------
(* Aggregator of services/activity.py *)

StatusCounts5 == [active |-> 0, at_risk |-> 0, inactive |-> 0, churned |-> 0,
                  unknown |-> 0]

\* services.activity.calculate_health_score
calculate_health_score(status_counts, total) ==
    IF total = 0
    THEN Zero
    ELSE Quot(WeightedSum(status_counts), total)

\* the classification appended for a member (services/activity.py 120-135)
Classification(member, lc, activity) ==
    LET player == member.player
        membership == member.membership
    IN  [username |-> GetDefault(player.displayName,
                                 GetDefault(player.username, ValS("Unknown"))),
         player_id |-> Get(player.id),
         role |-> GetDefault(membership.role, ValS("member")),
         exp |-> GetDefault(player.exp, Val(0)),
         ehp |-> GetDefault(player.ehp, Val(0)),
         ehb |-> GetDefault(player.ehb, Val(0)),
         type |-> GetDefault(player.type, ValS("regular")),
         build |-> GetDefault(player.build, ValS("main")),
         last_changed_at |-> lc,
         activity_status |-> activity.status,
         days_inactive |-> activity.days_inactive,
         status_color |-> activity.color,
         status_description |-> activity.description,
         joined_at |-> parse_wom_datetime(Get(membership.createdAt))]

\* the loop of analyze_clan_activity from member i on
RECURSIVE analyze_clan_activity_loop(_, _, _, _, _, _)
analyze_clan_activity_loop(members, th, cmap, t, i, acc) ==
    IF i > Len(members) \/ Raised(acc)
    THEN acc
    ELSE LET member == members[i]
             player == member.player
             lc == parse_wom_datetime(Get(player.lastChangedAt))
             activity == classify_activity(lc, th, cmap, t)
         IN  IF Raised(activity)
             THEN activity
             ELSE analyze_clan_activity_loop(members, th, cmap, t, i + 1,
                      [status_counts |-> [acc.status_counts EXCEPT ![activity.status] = @ + 1],
                       total_xp |-> acc.total_xp + Or(GetDefault(player.exp, Val(0)), Val(0)).v,
                       total_ehp |-> acc.total_ehp + Or(GetDefault(player.ehp, Val(0)), Val(0)).v,
                       total_ehb |-> acc.total_ehb + Or(GetDefault(player.ehb, Val(0)), Val(0)).v,
                       classifications |-> Append(acc.classifications,
                                                  Classification(member, lc, activity))])

\* services.activity.analyze_clan_activity, the clock reading passed as t
analyze_clan_activity(members, th, cmap, t) ==
    LET acc == analyze_clan_activity_loop(members, th, cmap, t, 1,
                   [status_counts |-> StatusCounts5,
                    total_xp |-> 0, total_ehp |-> 0, total_ehb |-> 0,
                    classifications |-> <<>>])
    IN  IF Raised(acc)
        THEN acc
        ELSE LET total_members == Len(members)
             IN  [total_members |-> total_members,
                  status_counts |-> acc.status_counts,
                  status_percentages |->
                      [k \in DOMAIN acc.status_counts |->
                          IF total_members > 0
                          THEN Quot(acc.status_counts[k] * 100, total_members)
                          ELSE Zero],
                  total_xp |-> acc.total_xp,
                  total_ehp |-> acc.total_ehp,
                  total_ehb |-> acc.total_ehb,
                  avg_xp |-> IF total_members > 0 THEN Quot(acc.total_xp, total_members) ELSE Zero,
                  avg_ehp |-> IF total_members > 0 THEN Quot(acc.total_ehp, total_members) ELSE Zero,
                  avg_ehb |-> IF total_members > 0 THEN Quot(acc.total_ehb, total_members) ELSE Zero,
                  members |-> acc.classifications,
                  health_score |-> calculate_health_score(acc.status_counts, total_members)]

----------------------------------------------------------------------------
(* Segmenters: views over a list of classified members *)

\* m.get(key, default) on a member dict
DictGet(m, key, default) == IF key \in DOMAIN m THEN m[key] ELSE default

\* the members of a list that pass a test, in order
RECURSIVE Filtered(_, _)
Filtered(ms, keep) ==
    IF ms = <<>>
    THEN <<>>
    ELSE (IF keep[1] THEN <<Head(ms)>> ELSE <<>>) \o Filtered(Tail(ms), Tail(keep))

\* sorted(...) ascending and then turned around, which also turns the ties around
RECURSIVE SortedAscending(_)
SortedAscending(pairs) ==
    IF pairs = <<>>
    THEN <<>>
    ELSE LET init == SortedAscending(SubSeq(pairs, 1, Len(pairs) - 1))
             p == pairs[Len(pairs)]
             k == Cardinality({i \in DOMAIN init : init[i][1] <= p[1]})
         IN  SubSeq(init, 1, k) \o <<p>> \o SubSeq(init, k + 1, Len(init))

SortedAscendingReversed(pairs) ==
    LET asc == SortedAscending(pairs)
    IN  [i \in 1 .. Len(asc) |-> asc[Len(asc) + 1 - i]]

\* sorted(items, key=..., reverse=True) on <<key, item>> pairs: descending
\* by key, items of equal key in their original order (the sort is stable
\* and reverse=True keeps it so)
RECURSIVE SortedDescending(_)
SortedDescending(pairs) ==
    IF pairs = <<>>
    THEN <<>>
    ELSE LET init == SortedDescending(SubSeq(pairs, 1, Len(pairs) - 1))
             p == pairs[Len(pairs)]
             k == Cardinality({i \in DOMAIN init : init[i][1] >= p[1]})
         IN  SubSeq(init, 1, k) \o <<p>> \o SubSeq(init, k + 1, Len(init))

\* analysis.get_at_risk_members; m["days_inactive"] raises KeyError on a
\* member without the key
get_at_risk_members(ms, lo, hi) ==
    IF \E i \in DOMAIN ms : "days_inactive" \notin DOMAIN ms[i]
    THEN KeyError
    ELSE LET kept == Filtered(ms, [i \in DOMAIN ms |->
                         lo <= ms[i].days_inactive /\ ms[i].days_inactive <= hi])
             sorted == SortedDescending([i \in DOMAIN kept |->
                                            <<kept[i].days_inactive, kept[i]>>])
         IN  [i \in DOMAIN sorted |-> sorted[i][2]]

\* services.activity.get_churn_risk_members
get_churn_risk_members(ms, lo, hi) ==
    LET at_risk_ms == Filtered(ms, [i \in DOMAIN ms |->
                          /\ lo <= DictGet(ms[i], "days_inactive", 0)
                          /\ DictGet(ms[i], "days_inactive", 0) <= hi])
        sorted == SortedDescending([i \in DOMAIN at_risk_ms |->
                      <<DictGet(at_risk_ms[i], "days_inactive", 0), at_risk_ms[i]>>])
    IN  [i \in DOMAIN sorted |-> sorted[i][2]]

\* the elements of a list
Elements(seq) == {seq[i] : i \in DOMAIN seq}

\* RetainedCount without the lower bound 0
RetainedCountNoFloor(ms, days) ==
    Cardinality({i \in DOMAIN ms : ms[i].days_inactive <= days})

\* RetainedCount counting the members inactive for at least the threshold
RetainedCountAtLeast(ms, days) ==
    Cardinality({i \in DOMAIN ms : days <= ms[i].days_inactive})

\* sum(1 for m in members if 0 <= m["days_inactive"] <= days)
RetainedCount(ms, days) ==
    Cardinality({i \in DOMAIN ms : 0 <= ms[i].days_inactive /\ ms[i].days_inactive <= days})

\* analysis.get_retention_rates: a dict threshold -> rate
get_retention_rates(ms, ps) ==
    LET total == IF Len(ms) = 0 THEN 1 ELSE Len(ms)
    IN  IF ps # <<>> /\ \E i \in DOMAIN ms : "days_inactive" \notin DOMAIN ms[i]
        THEN KeyError
        ELSE [days \in Elements(ps) |-> Quot(RetainedCount(ms, days) * 100, total)]

\* services.activity.calculate_retention_rates
calculate_retention_rates(ms, ps) ==
    LET total == Len(ms)
    IN  IF total = 0
        THEN [p \in Elements(ps) |-> Zero]
        ELSE [days \in Elements(ps) |->
                 Quot(Cardinality({i \in DOMAIN ms :
                          DictGet(ms[i], "days_inactive", 999) <= days}) * 100, total)]

\* Buckets with every bucket starting where the one before ends
BucketsSharedEdges ==
    <<[min_d |-> 0, max_d |-> 7, label |-> "0-7d"],
      [min_d |-> 7, max_d |-> 14, label |-> "8-14d"],
      [min_d |-> 14, max_d |-> 30, label |-> "15-30d"],
      [min_d |-> 30, max_d |-> 60, label |-> "31-60d"],
      [min_d |-> 60, max_d |-> 90, label |-> "61-90d"],
      [min_d |-> 90, max_d |-> 180, label |-> "91-180d"],
      [min_d |-> 180, max_d |-> 365, label |-> "181-365d"],
      [min_d |-> 365, max_d |-> 9999, label |-> "1y+"]>>

\* the bucket table of analysis.get_activity_buckets
Buckets ==
    <<[min_d |-> 0, max_d |-> 7, label |-> "0-7d"],
      [min_d |-> 8, max_d |-> 14, label |-> "8-14d"],
      [min_d |-> 15, max_d |-> 30, label |-> "15-30d"],
      [min_d |-> 31, max_d |-> 60, label |-> "31-60d"],
      [min_d |-> 61, max_d |-> 90, label |-> "61-90d"],
      [min_d |-> 91, max_d |-> 180, label |-> "91-180d"],
      [min_d |-> 181, max_d |-> 365, label |-> "181-365d"],
      [min_d |-> 366, max_d |-> 9999, label |-> "1y+"]>>

\* the bucket table of services.activity.get_activity_timeline
TimelineBuckets ==
    <<[min_d |-> 0, max_d |-> 7, label |-> "0-7 days"],
      [min_d |-> 8, max_d |-> 14, label |-> "8-14 days"],
      [min_d |-> 15, max_d |-> 30, label |-> "15-30 days"],
      [min_d |-> 31, max_d |-> 60, label |-> "31-60 days"],
      [min_d |-> 61, max_d |-> 90, label |-> "61-90 days"],
      [min_d |-> 91, max_d |-> 180, label |-> "91-180 days"],
      [min_d |-> 181, max_d |-> 365, label |-> "181-365 days"],
      [min_d |-> 366, max_d |-> 9999, label |-> "1+ year"]>>

\* sum(1 for m in members if min_d <= m.get("days_inactive", 9999) <= max_d)
BucketCount(ms, b) ==
    Cardinality({i \in DOMAIN ms :
        /\ b.min_d <= DictGet(ms[i], "days_inactive", 9999)
        /\ DictGet(ms[i], "days_inactive", 9999) <= b.max_d})

\* analysis.get_activity_buckets
get_activity_buckets(ms) ==
    LET total == IF Len(ms) = 0 THEN 1 ELSE Len(ms)
    IN  [b \in DOMAIN Buckets |->
            [label |-> Buckets[b].label,
             count |-> BucketCount(ms, Buckets[b]),
             pct |-> Quot(BucketCount(ms, Buckets[b]) * 100, total)]]

\* services.activity.get_activity_timeline
get_activity_timeline(ms) ==
    LET total == Len(ms)
    IN  [b \in DOMAIN TimelineBuckets |->
            [bucket |-> TimelineBuckets[b].label,
             min_days |-> TimelineBuckets[b].min_d,
             max_days |-> TimelineBuckets[b].max_d,
             count |-> BucketCount(ms, TimelineBuckets[b]),
             percentage |-> IF total > 0
                            THEN Quot(BucketCount(ms, TimelineBuckets[b]) * 100, total)
                            ELSE Zero]]

\* AddToGroup starting the role's list over with every member
AddToGroupOverwriting(roles, role, member) ==
    IF role \in DOMAIN roles
    THEN [roles EXCEPT ![role] = <<member>>]
    ELSE roles @@ (role :> <<member>>)

\* one pass of the loop of group_by_role (services/activity.py 237-239)
AddToGroup(roles, role, member) ==
    IF role \in DOMAIN roles
    THEN [roles EXCEPT ![role] = Append(@, member)]
    ELSE roles @@ (role :> <<member>>)

\* the loop of group_by_role from member i on
RECURSIVE group_by_role_loop(_, _, _)
group_by_role_loop(ms, i, roles) ==
    IF i > Len(ms)
    THEN roles
    ELSE group_by_role_loop(ms, i + 1,
             AddToGroup(roles, DictGet(ms[i], "role", ValS("member")), ms[i]))

\* services.activity.group_by_role: a dict role -> list of members
group_by_role(ms) == group_by_role_loop(ms, 1, <<>>)

----------------------------------------------------------------------------
(* The member list of api.py: hiscores merged with the activity feed *)

\* str.lower() on the names and event types of the model
Lower(str) ==
    CASE str = "Bob" -> "bob"
      [] str = "Amy" -> "amy"
      [] OTHER -> str

\* an event of the activity feed
Event(username, displayName, type, role, createdAt) ==
    [player |-> [username |-> username, displayName |-> displayName],
     type |-> type, role |-> role, createdAt |-> createdAt]

\* the usernames of the hiscores entries, lowered ("" for a missing one)
TrackedNames(tracked) ==
    {Lower(GetDefault(tracked[i].player.username, ValS("")).v) : i \in DOMAIN tracked}

\* where the key stands in current_members, a dict kept as the sequence of
\* its items in insertion order; 0 if it is not a key
RECURSIVE KeyIndex(_, _, _)
KeyIndex(current, username, i) ==
    IF i > Len(current) THEN 0
    ELSE IF current[i].username = username THEN i
    ELSE KeyIndex(current, username, i + 1)

\* current_members.pop(username, None)
Popped(current, username) ==
    SelectSeq(current, LAMBDA item : item.username # username)

\* the loop body of get_members for one event (api.py 114-131)
ApplyEvent(current, event) ==
    LET username == Lower(GetDefault(event.player.username, ValS("")).v)
        display_name == GetDefault(event.player.displayName,
                                   GetDefault(event.player.username, ValS("Unknown")))
        event_type == Lower(GetDefault(event.type, ValS("")).v)
        role == GetDefault(event.role, ValS("member"))
        created == Get(event.createdAt)
        k == KeyIndex(current, username, 1)
        item == [username |-> username, displayName |-> display_name,
                 role |-> role, joinedAt |-> created]
    IN  IF event_type = "joined"
        THEN IF k = 0 THEN Append(current, item) ELSE [current EXCEPT ![k] = item]
        ELSE IF event_type \in {"left", "kicked", "banned"}
        THEN Popped(current, username)
        ELSE IF event_type = "changed_role"
        THEN IF k # 0 THEN [current EXCEPT ![k].role = role] ELSE current
        ELSE current

\* the events in the order the loop takes them, as they come from the feed
Unreversed(events) == events

\* reversed(activity): oldest event first
Reversed(events) == [i \in 1 .. Len(events) |-> events[Len(events) + 1 - i]]

\* the loop over the events from event i on
RECURSIVE Replay(_, _, _)
Replay(events, i, current) ==
    IF i > Len(events) THEN current
    ELSE Replay(events, i + 1, ApplyEvent(current, events[i]))

\* the placeholder appended for an untracked member (api.py 139-155)
PlaceholderEntry(item) ==
    Entry(Player(Missing, ValS(item.username), item.displayName, ValS("untracked"),
                 Null, Null, Null, NullT, ValS("unknown"), ValS("unknown")),
          MissingS, Membership(item.role, item.joinedAt))

\* the placeholders of the current members not among the tracked names
Placeholders(current, tracked_names) ==
    LET untracked == SelectSeq(current, LAMBDA item : item.username \notin tracked_names)
    IN  [i \in 1 .. Len(untracked) |-> PlaceholderEntry(untracked[i])]

\* Merged with the placeholders put first
MergedPlaceholdersFirst(tracked, placeholders) == placeholders \o tracked

\* result = list(tracked), then the placeholders appended
Merged(tracked, placeholders) == tracked \o placeholders

\* api.WOMClient.get_members on the responses of the two endpoints
get_members(hiscores_response, activity_response, include) ==
    IF ~hiscores_response.ok
    THEN hiscores_response
    ELSE LET tracked == hiscores_response.body
             tracked_names == TrackedNames(tracked)
         IN  IF ~include THEN Body(tracked)
             ELSE IF ~activity_response.ok THEN Body(tracked)
             ELSE Body(Merged(tracked,
                              Placeholders(Replay(Reversed(activity_response.body), 1, <<>>),
                                           tracked_names)))

----------------------------------------------------------------------------
(* The paginated member fetch of services/api.py *)

\* limit = 50
PageLimit == 50

\* the members endpoint honouring limit and offset: the members at positions
\* offset + 1 .. offset + limit of those it holds, as a list or wrapped in a
\* dict under "members"
MembersEndpoint(held, limit, off, as_dict) ==
    LET last == IF off + limit < Len(held) THEN off + limit ELSE Len(held)
    IN  [is_list |-> ~as_dict, members |-> SubSeq(held, off + 1, last)]

\* response if isinstance(response, list) else response.get("members", [])
MembersOf(response) == response.members

\* IsLastPage taking a full page for the last one too
IsLastPageOrFull(members, limit) == Len(members) <= limit

\* len(members) < limit
IsLastPage(members, limit) == Len(members) < limit

----------------------------------------------------------------------------
(* Inputs *)

\* instants the rosters and the classifier are tried on, as days before the
\* epoch of the clock: around every threshold of the configuration, and in
\* the future
DaysAgo == {-1, 0, 2, 7, 8, 20, 30, 31, 60, 90, 91, 200}

\* every present last-activity datetime tried on the classifier
ClassifierInstants ==
    {DateTime(r - d * TicksPerDay, tz) :
        d \in DaysAgo, r \in 0 .. TicksPerDay - 1, tz \in {None, Some(0), Some(1)}}

\* thresholds dicts: the two configured ones, small increasing ones,
\* non-increasing ones, and dicts with keys missing
ThresholdConfigs ==
    {ACTIVITY_THRESHOLDS, SETTINGS_THRESHOLDS,
     [active |-> 0, at_risk |-> 1, inactive |-> 2],
     [active |-> 2, at_risk |-> 8, inactive |-> 20],
     [active |-> 30, at_risk |-> 7, inactive |-> 90],
     [active |-> 7, at_risk |-> 7, inactive |-> 7],
     [active |-> 7],
     <<>>}

\* colors dicts: the two configured ones, one with no entry for unknown, none
ColorMaps ==
    {STATUS_COLORS, ACTIVITY_COLORS,
     [active |-> "#2ecc71", churned |-> "#e74c3c"],
     <<>>}

\* lastChangedAt of a tracked hiscores entry
RosterTimestamps ==
    {NullT, ValT(TsGarbage),
     ValT(TsZ(-2 * TicksPerDay)),
     ValT(TsOffset(1 - 20 * TicksPerDay, 1)),
     ValT(TsNaive(-60 * TicksPerDay)),
     ValT(TsZ(-200 * TicksPerDay - 1))}

\* players with statistics: experience set, not flagged untracked
TrackedPlayers ==
    {Player(Missing, ValS("zezima"), ValS("Zezima"), ValS("active"), Val(5), eh[1], eh[2],
            ts, ValS("ironman"), ValS("main")) :
        eh \in {<<Null, Null>>, <<Val(1), Val(2)>>}, ts \in RosterTimestamps}

\* players the aggregator of analysis.py treats as untracked: flagged by the
\* source, or with no experience value; some carry numbers and a timestamp
UntrackedPlayers ==
    {Player(Missing, ValS("bob"), ValS("Bob"), se[1], se[2], se[3], se[3],
            ts, ValS("unknown"), ValS("unknown")) :
        se \in {<<ValS("untracked"), Null, Null>>, <<ValS("untracked"), Val(3), Val(4)>>,
                <<MissingS, Missing, Missing>>, <<ValS("active"), Null, Val(4)>>},
        ts \in {NullT, ValT(TsZ(-2 * TicksPerDay))}}

RawPlayers == TrackedPlayers \cup UntrackedPlayers

\* a roster entry for a player: the i-th entry of a roster has player id i
RosterEntry(player, i) ==
    Entry([player EXCEPT !.id = Val(i)], ValS("owner"),
          Membership(ValS("owner"), NullT))

\* the roster holding the given players, in order
RosterOf(players) == [i \in 1 .. Len(players) |-> RosterEntry(players[i], i)]

NotRun == None

\* no segmenter is called: the arguments take their defaults
NoSegments ==
    /\ member_list = <<>>
    /\ min_days = 14
    /\ max_days = 90
    /\ periods = <<>>
    /\ at_risk = NotRun
    /\ churn_risk = NotRun
    /\ retention = NotRun
    /\ wom_retention = NotRun
    /\ buckets = NotRun
    /\ timeline = NotRun
    /\ role_groups = NotRun

\* no parser is called
NoParse ==
    /\ timestamp = NullT
    /\ parsed = NotRun
    /\ wom_parsed = NotRun

\* the client is not called
NoClient ==
    /\ hiscores = Body(<<>>)
    /\ activity_feed = Body(<<>>)
    /\ include_untracked = TRUE
    /\ member_result = NotRun
    /\ upstream = <<>>
    /\ wrapped = FALSE
    /\ offset = 0
    /\ all_members = <<>>
    /\ requests = <<>>
    /\ pc = "idle"

----------------------------------------------------------------------------
(* The aggregators run on a roster *)

Init ==
    /\ \E n \in 0 .. MaxRoster :
           \E players \in [1 .. n -> RawPlayers] : raw_members = RosterOf(players)
    /\ thresholds = ACTIVITY_THRESHOLDS
    /\ colors = STATUS_COLORS
    /\ now \in 0 .. MaxNow
    /\ last_changed = None
    /\ member_status = NotRun
    /\ activity_status = NotRun
    /\ summary = NotRun
    /\ analysis = NotRun
    /\ NoSegments
    /\ NoParse
    /\ page = "idle"
    /\ NoClient

\* a call of analysis.analyze_members on the roster
AnalyzeMembers ==
    /\ summary = NotRun
    /\ summary' = Some(analyze_members(raw_members, thresholds, colors, now))
    /\ UNCHANGED <<raw_members, thresholds, colors, now, last_changed,
                   member_status, activity_status, analysis,
                   segVars, parseVars, page, clientVars>>

\* a call of services.activity.analyze_clan_activity on the roster
AnalyzeClanActivity ==
    /\ analysis = NotRun
    /\ analysis' = Some(analyze_clan_activity(raw_members, thresholds, colors, now))
    /\ UNCHANGED <<raw_members, thresholds, colors, now, last_changed,
                   member_status, activity_status, summary,
                   segVars, parseVars, page, clientVars>>

Next == AnalyzeMembers \/ AnalyzeClanActivity

Spec == Init /\ [][Next]_vars

----------------------------------------------------------------------------
(* The classifiers run on one last-activity datetime *)

InitClassify ==
    /\ raw_members = <<>>
    /\ thresholds \in ThresholdConfigs
    /\ colors \in ColorMaps
    /\ now \in 0 .. MaxNow
    /\ last_changed \in {None} \cup {Some(dt) : dt \in ClassifierInstants}
    /\ member_status = NotRun
    /\ activity_status = NotRun
    /\ summary = NotRun
    /\ analysis = NotRun
    /\ NoSegments
    /\ NoParse
    /\ page = "idle"
    /\ NoClient

\* a call of analysis.classify_member
ClassifyMember ==
    /\ member_status = NotRun
    /\ member_status' = Some(classify_member(last_changed, thresholds, colors, now))
    /\ UNCHANGED <<raw_members, thresholds, colors, now, last_changed,
                   activity_status, summary, analysis,
                   segVars, parseVars, page, clientVars>>

\* a call of services.activity.classify_activity
ClassifyActivity ==
    /\ activity_status = NotRun
    /\ activity_status' = Some(classify_activity(last_changed, thresholds, colors, now))
    /\ UNCHANGED <<raw_members, thresholds, colors, now, last_changed,
                   member_status, summary, analysis,
                   segVars, parseVars, page, clientVars>>

NextClassify == ClassifyMember \/ ClassifyActivity

SpecClassify == InitClassify /\ [][NextClassify]_vars

----------------------------------------------------------------------------
(* The aggregators run on two tracked members, under each thresholds dict *)

\* tracked players last active on either side of every configured threshold,
\* in the future, or with no timestamp
ThresholdPlayers ==
    {Player(Missing, ValS("zezima"), ValS("Zezima"), ValS("active"), Val(5), Val(1), Val(2),
            ts, ValS("regular"), ValS("main")) :
        ts \in {NullT} \cup {ValT(TsZ(r - d * TicksPerDay)) :
                                d \in DaysAgo, r \in 0 .. TicksPerDay - 1}}

InitTracked ==
    /\ \E players \in [1 .. 2 -> ThresholdPlayers] : raw_members = RosterOf(players)
    /\ thresholds \in {th \in ThresholdConfigs :
                          {"active", "at_risk", "inactive"} \subseteq DOMAIN th}
    /\ colors = STATUS_COLORS
    /\ now \in 0 .. MaxNow
    /\ last_changed = None
    /\ member_status = NotRun
    /\ activity_status = NotRun
    /\ summary = NotRun
    /\ analysis = NotRun
    /\ NoSegments
    /\ NoParse
    /\ page = "idle"
    /\ NoClient

SpecTracked == InitTracked /\ [][Next]_vars

----------------------------------------------------------------------------
(* The segmenters, each called on a list of classified members *)

\* days_inactive of the members tried: the sentinel, both ends of every
\* histogram bucket, and beyond the last bucket
SegmentDays == {-1, 0, 7, 8, 14, 15, 30, 31, 60, 61, 90, 91, 180, 181, 365, 366, 9999, 10000}

\* the churn-risk ranges tried: the defaults of analysis.py and of
\* services/activity.py, and a narrow one
DayRanges == {<<14, 90>>, <<14, 60>>, <<0, 7>>}

\* the period lists tried: the dashboard's, the default of
\* calculate_retention_rates, and an unordered one
PeriodLists == {<<7, 14, 30, 60, 90>>, <<7, 30, 90>>, <<365, 0, 14>>}

\* a classified member as the segmenters read it
SegmentMember(i, d) == [player_id |-> i, days_inactive |-> d, role |-> ValS("member")]

InitSegment ==
    /\ raw_members = <<>>
    /\ thresholds = ACTIVITY_THRESHOLDS
    /\ colors = STATUS_COLORS
    /\ now = 0
    /\ last_changed = None
    /\ member_status = NotRun
    /\ activity_status = NotRun
    /\ summary = NotRun
    /\ analysis = NotRun
    /\ \E n \in 0 .. MaxRoster :
           \E days \in [1 .. n -> SegmentDays] :
               member_list = [i \in 1 .. n |-> SegmentMember(i, days[i])]
    /\ \E range \in DayRanges : min_days = range[1] /\ max_days = range[2]
    /\ periods \in PeriodLists
    /\ at_risk = NotRun
    /\ churn_risk = NotRun
    /\ retention = NotRun
    /\ wom_retention = NotRun
    /\ buckets = NotRun
    /\ timeline = NotRun
    /\ role_groups = NotRun
    /\ NoParse
    /\ page = "idle"
    /\ NoClient

\* no segmenter has been called yet
NoneCalled ==
    /\ at_risk = NotRun
    /\ churn_risk = NotRun
    /\ retention = NotRun
    /\ wom_retention = NotRun
    /\ buckets = NotRun
    /\ timeline = NotRun
    /\ role_groups = NotRun

\* a call of analysis.get_at_risk_members
GetAtRiskMembers ==
    /\ NoneCalled
    /\ at_risk' = Some(get_at_risk_members(member_list, min_days, max_days))
    /\ UNCHANGED <<raw_members, thresholds, colors, now, last_changed,
                   member_status, activity_status, summary, analysis,
                   member_list, min_days, max_days, periods, churn_risk,
                   retention, wom_retention, buckets, timeline, role_groups,
                   parseVars, page, clientVars>>

\* a call of services.activity.get_churn_risk_members
GetChurnRiskMembers ==
    /\ NoneCalled
    /\ churn_risk' = Some(get_churn_risk_members(member_list, min_days, max_days))
    /\ UNCHANGED <<raw_members, thresholds, colors, now, last_changed,
                   member_status, activity_status, summary, analysis,
                   member_list, min_days, max_days, periods, at_risk,
                   retention, wom_retention, buckets, timeline, role_groups,
                   parseVars, page, clientVars>>

\* a call of analysis.get_retention_rates
GetRetentionRates ==
    /\ NoneCalled
    /\ retention' = Some(get_retention_rates(member_list, periods))
    /\ UNCHANGED <<raw_members, thresholds, colors, now, last_changed,
                   member_status, activity_status, summary, analysis,
                   member_list, min_days, max_days, periods, at_risk, churn_risk,
                   wom_retention, buckets, timeline, role_groups,
                   parseVars, page, clientVars>>

\* a call of services.activity.calculate_retention_rates
CalculateRetentionRates ==
    /\ NoneCalled
    /\ wom_retention' = Some(calculate_retention_rates(member_list, periods))
    /\ UNCHANGED <<raw_members, thresholds, colors, now, last_changed,
                   member_status, activity_status, summary, analysis,
                   member_list, min_days, max_days, periods, at_risk, churn_risk,
                   retention, buckets, timeline, role_groups,
                   parseVars, page, clientVars>>

\* a call of analysis.get_activity_buckets
GetActivityBuckets ==
    /\ NoneCalled
    /\ buckets' = Some(get_activity_buckets(member_list))
    /\ UNCHANGED <<raw_members, thresholds, colors, now, last_changed,
                   member_status, activity_status, summary, analysis,
                   member_list, min_days, max_days, periods, at_risk, churn_risk,
                   retention, wom_retention, timeline, role_groups,
                   parseVars, page, clientVars>>

\* a call of services.activity.get_activity_timeline
GetActivityTimeline ==
    /\ NoneCalled
    /\ timeline' = Some(get_activity_timeline(member_list))
    /\ UNCHANGED <<raw_members, thresholds, colors, now, last_changed,
                   member_status, activity_status, summary, analysis,
                   member_list, min_days, max_days, periods, at_risk, churn_risk,
                   retention, wom_retention, buckets, role_groups,
                   parseVars, page, clientVars>>

NextSegment ==
    \/ GetAtRiskMembers
    \/ GetChurnRiskMembers
    \/ GetRetentionRates
    \/ CalculateRetentionRates
    \/ GetActivityBuckets
    \/ GetActivityTimeline

SpecSegment == InitSegment /\ [][NextSegment]_vars

----------------------------------------------------------------------------
(* group_by_role called on a list of members *)

\* members with a role, with a null role, and with no role key
RoleMembers ==
    {[player_id |-> 0, days_inactive |-> d, role |-> r] :
        d \in {-1, 0, 20}, r \in {ValS("owner"), ValS("member"), NullS}}
    \cup {[player_id |-> 0, days_inactive |-> d] : d \in {-1, 0, 20}}

InitRoles ==
    /\ raw_members = <<>>
    /\ thresholds = ACTIVITY_THRESHOLDS
    /\ colors = STATUS_COLORS
    /\ now = 0
    /\ last_changed = None
    /\ member_status = NotRun
    /\ activity_status = NotRun
    /\ summary = NotRun
    /\ analysis = NotRun
    /\ \E n \in 0 .. MaxRoster + 1 :
           \E ms \in [1 .. n -> RoleMembers] :
               member_list = [i \in 1 .. n |-> [ms[i] EXCEPT !.player_id = i]]
    /\ min_days = 14
    /\ max_days = 90
    /\ periods = <<>>
    /\ at_risk = NotRun
    /\ churn_risk = NotRun
    /\ retention = NotRun
    /\ wom_retention = NotRun
    /\ buckets = NotRun
    /\ timeline = NotRun
    /\ role_groups = NotRun
    /\ NoParse
    /\ page = "idle"
    /\ NoClient

\* a call of services.activity.group_by_role
GroupByRole ==
    /\ role_groups = NotRun
    /\ role_groups' = Some(group_by_role(member_list))
    /\ UNCHANGED <<raw_members, thresholds, colors, now, last_changed,
                   member_status, activity_status, summary, analysis,
                   member_list, min_days, max_days, periods, at_risk, churn_risk,
                   retention, wom_retention, buckets, timeline,
                   parseVars, page, clientVars>>

NextRoles == GroupByRole

SpecRoles == InitRoles /\ [][NextRoles]_vars

----------------------------------------------------------------------------
(* The timestamp parsers, each called on one value *)

\* a value that is not a string (a number, say): .endswith raises AttributeError
TsNonString == [kind |-> "nonstring", wall |-> 0, off |-> 0]

\* wall-clock readings written in the timestamps tried
ParserWalls == -20 .. 20

\* the values tried: null, "", text that is no date, a non-string, and dates
\* with a Z suffix, with a numeric offset and with no zone
ParserInputs ==
    {NullT, ValT(TsEmpty), ValT(TsGarbage), ValT(TsNonString)}
    \cup {ValT(TsZ(w)) : w \in ParserWalls}
    \cup {ValT(TsOffset(w, o)) : w \in ParserWalls, o \in {-1, 0, 1}}
    \cup {ValT(TsNaive(w)) : w \in ParserWalls}

InitParse ==
    /\ raw_members = <<>>
    /\ thresholds = ACTIVITY_THRESHOLDS
    /\ colors = STATUS_COLORS
    /\ now = 0
    /\ last_changed = None
    /\ member_status = NotRun
    /\ activity_status = NotRun
    /\ summary = NotRun
    /\ analysis = NotRun
    /\ NoSegments
    /\ timestamp \in ParserInputs
    /\ parsed = NotRun
    /\ wom_parsed = NotRun
    /\ page = "idle"
    /\ NoClient

\* a call of api.parse_datetime
ParseDatetime ==
    /\ parsed = NotRun
    /\ parsed' = Some(parse_datetime(timestamp))
    /\ UNCHANGED <<raw_members, thresholds, colors, now, last_changed,
                   member_status, activity_status, summary, analysis,
                   segVars, timestamp, wom_parsed, page, clientVars>>

\* a call of services.api.parse_wom_datetime
ParseWomDatetime ==
    /\ wom_parsed = NotRun
    /\ wom_parsed' = Some(parse_wom_datetime(timestamp))
    /\ UNCHANGED <<raw_members, thresholds, colors, now, last_changed,
                   member_status, activity_status, summary, analysis,
                   segVars, timestamp, parsed, page, clientVars>>

NextParse == ParseDatetime \/ ParseWomDatetime

SpecParse == InitParse /\ [][NextParse]_vars

----------------------------------------------------------------------------
(* A run of the dashboard page on a fetched roster (app.py main) *)

\* the retention thresholds the page asks for
DashboardPeriods == <<7, 14, 30, 60, 90>>

\* app.main from the roster check on: no data for an empty roster, else the
\* analysis and the views computed from its members
Main ==
    /\ page = "idle"
    /\ IF raw_members = <<>>
       THEN /\ page' = "no_data"
            /\ UNCHANGED <<analysis, timeline, wom_retention, role_groups, churn_risk>>
       ELSE LET a == analyze_clan_activity(raw_members, thresholds, colors, now)
            IN  /\ analysis' = Some(a)
                /\ IF Raised(a)
                   THEN /\ page' = "error"
                        /\ UNCHANGED <<timeline, wom_retention, role_groups, churn_risk>>
                   ELSE /\ timeline' = Some(get_activity_timeline(a.members))
                        /\ wom_retention' =
                               Some(calculate_retention_rates(a.members, DashboardPeriods))
                        /\ role_groups' = Some(group_by_role(a.members))
                        /\ churn_risk' =
                               Some(get_churn_risk_members(a.members, min_days, max_days))
                        /\ page' = "rendered"
    /\ UNCHANGED <<raw_members, thresholds, colors, now, last_changed,
                   member_status, activity_status, summary,
                   member_list, min_days, max_days, periods, at_risk,
                   retention, buckets, parseVars, clientVars>>

NextDashboard == Main

SpecDashboard == Init /\ [][NextDashboard]_vars

----------------------------------------------------------------------------
(* A run of the dashboard page from the fetch on (app.py fetch_members, main) *)

\* the exceptions _get raises: raise_for_status, the transport, the decoder
TransportErrors == {"HTTPError", "ConnectionError", "Timeout", "JSONDecodeError"}

\* services.api.WOMClient.get_group_members on the response of the hiscores
\* endpoint: each entry becomes a player with its membership (the players
\* carry no registeredAt, so createdAt reads None); an exception of _get
\* propagates
get_group_members(response) ==
    IF ~response.ok
    THEN response
    ELSE Body([i \in DOMAIN response.body |->
                  Entry(response.body[i].player, MissingS,
                        Membership(GetDefault(response.body[i].role, ValS("member")),
                                   NullT))])

\* fetch_members catching HTTPError only
fetch_members_http_only(response) ==
    LET fetched == get_group_members(response)
    IN  IF fetched.ok THEN fetched
        ELSE IF fetched.error = "HTTPError" THEN Body(<<>>)
        ELSE fetched

\* app.fetch_members: the member list, or [] from either except clause
fetch_members(response) ==
    LET fetched == get_group_members(response)
    IN  IF fetched.ok THEN fetched
        ELSE IF fetched.error = "HTTPError" THEN Body(<<>>)
        ELSE Body(<<>>)

\* a hiscores entry for a player: the i-th entry has player id i
HiscoresEntry(player, i) ==
    Entry([player EXCEPT !.id = Val(i)], ValS("owner"), Membership(MissingS, MissingT))

\* the hiscores list of the given players, in order
HiscoresOf(players) == [i \in 1 .. Len(players) |-> HiscoresEntry(players[i], i)]

InitPage ==
    /\ raw_members = <<>>
    /\ thresholds = SETTINGS_THRESHOLDS
    /\ colors = ACTIVITY_COLORS
    /\ now \in 0 .. MaxNow
    /\ last_changed = None
    /\ member_status = NotRun
    /\ activity_status = NotRun
    /\ summary = NotRun
    /\ analysis = NotRun
    /\ NoSegments
    /\ NoParse
    /\ page = "idle"
    /\ \/ \E e \in TransportErrors : hiscores = Failure(e)
       \/ \E n \in 0 .. MaxRoster :
              \E players \in [1 .. n -> RawPlayers] : hiscores = Body(HiscoresOf(players))
    /\ activity_feed = Body(<<>>)
    /\ include_untracked = TRUE
    /\ member_result = NotRun
    /\ upstream = <<>>
    /\ wrapped = FALSE
    /\ offset = 0
    /\ all_members = <<>>
    /\ requests = <<>>
    /\ pc = "idle"

\* app.main: fetch the members, show "no data" for an empty list, else run
\* the analysis and compute the views from its members; an exception that
\* escapes ends the run in an error
RunPage ==
    /\ page = "idle"
    /\ LET members_raw == fetch_members(hiscores)
       IN  IF ~members_raw.ok
           THEN /\ page' = "error"
                /\ UNCHANGED <<raw_members, analysis, timeline, wom_retention,
                               role_groups, churn_risk>>
           ELSE /\ raw_members' = members_raw.body
                /\ IF members_raw.body = <<>>
                   THEN /\ page' = "no_data"
                        /\ UNCHANGED <<analysis, timeline, wom_retention,
                                       role_groups, churn_risk>>
                   ELSE LET a == analyze_clan_activity(members_raw.body,
                                                       thresholds, colors, now)
                        IN  /\ analysis' = Some(a)
                            /\ IF Raised(a)
                               THEN /\ page' = "error"
                                    /\ UNCHANGED <<timeline, wom_retention,
                                                   role_groups, churn_risk>>
                               ELSE /\ timeline' = Some(get_activity_timeline(a.members))
                                    /\ wom_retention' =
                                           Some(calculate_retention_rates(a.members,
                                                                          DashboardPeriods))
                                    /\ role_groups' = Some(group_by_role(a.members))
                                    /\ churn_risk' =
                                           Some(get_churn_risk_members(a.members,
                                                                       min_days, max_days))
                                    /\ page' = "rendered"
    /\ UNCHANGED <<thresholds, colors, now, last_changed,
                   member_status, activity_status, summary,
                   member_list, min_days, max_days, periods, at_risk,
                   retention, buckets, parseVars, clientVars>>

NextPage == RunPage

SpecPage == InitPage /\ [][NextPage]_vars

----------------------------------------------------------------------------
(* get_members called on a hiscores response and an activity feed *)

\* the events tried: two users (one written with a capital), joins and
\* role changes with a role or with none, and the three ways of leaving
FeedEvents ==
    {Event(ValS(u), ValS(u), ValS(t), r, NullT) :
        u \in {"amy", "Bob"}, t \in {"joined", "changed_role"}, r \in {MissingS, ValS("owner")}}
    \cup {Event(ValS(u), ValS(u), ValS(t), MissingS, NullT) :
        u \in {"amy", "Bob"}, t \in {"left", "kicked", "banned"}}

\* a hiscores entry of the named player
TrackedEntry(username, displayName, i) ==
    HiscoresEntry(Player(Missing, ValS(username), ValS(displayName), ValS("active"),
                         Val(5), Val(1), Val(2), NullT, ValS("regular"), ValS("main")), i)

\* the hiscores responses tried: no member, one, two, or an error
TrackedResponses ==
    {Body(<<>>),
     Body(<<TrackedEntry("bob", "Bob", 1)>>),
     Body(<<TrackedEntry("bob", "Bob", 1), TrackedEntry("amy", "Amy", 2)>>),
     Failure("HTTPError")}

InitMembers ==
    /\ raw_members = <<>>
    /\ thresholds = ACTIVITY_THRESHOLDS
    /\ colors = STATUS_COLORS
    /\ now = 0
    /\ last_changed = None
    /\ member_status = NotRun
    /\ activity_status = NotRun
    /\ summary = NotRun
    /\ analysis = NotRun
    /\ NoSegments
    /\ NoParse
    /\ page = "idle"
    /\ hiscores \in TrackedResponses
    /\ \/ \E e \in {"HTTPError", "ConnectionError"} : activity_feed = Failure(e)
       \/ \E n \in 0 .. MaxFeed :
              \E events \in [1 .. n -> FeedEvents] : activity_feed = Body(events)
    /\ include_untracked \in BOOLEAN
    /\ member_result = NotRun
    /\ upstream = <<>>
    /\ wrapped = FALSE
    /\ offset = 0
    /\ all_members = <<>>
    /\ requests = <<>>
    /\ pc = "idle"

\* a call of api.WOMClient.get_members
GetMembers ==
    /\ member_result = NotRun
    /\ member_result' = Some(get_members(hiscores, activity_feed, include_untracked))
    /\ UNCHANGED <<raw_members, thresholds, colors, now, last_changed,
                   member_status, activity_status, summary, analysis,
                   segVars, parseVars, page,
                   hiscores, activity_feed, include_untracked,
                   upstream, wrapped, offset, all_members, requests, pc>>

NextMembers == GetMembers

SpecMembers == InitMembers /\ [][NextMembers]_vars

----------------------------------------------------------------------------
(* get_group_members_paginated called on a members endpoint *)

\* the loop is entered with offset 0 and nothing collected; the endpoint
\* holds 0 .. MaxUpstream members, numbered in its order
InitPaginate ==
    /\ raw_members = <<>>
    /\ thresholds = ACTIVITY_THRESHOLDS
    /\ colors = STATUS_COLORS
    /\ now = 0
    /\ last_changed = None
    /\ member_status = NotRun
    /\ activity_status = NotRun
    /\ summary = NotRun
    /\ analysis = NotRun
    /\ NoSegments
    /\ NoParse
    /\ page = "idle"
    /\ hiscores = Body(<<>>)
    /\ activity_feed = Body(<<>>)
    /\ include_untracked = TRUE
    /\ member_result = NotRun
    /\ \E n \in 0 .. MaxUpstream : upstream = [i \in 1 .. n |-> i]
    /\ wrapped \in BOOLEAN
    /\ offset = 0
    /\ all_members = <<>>
    /\ requests = <<>>
    /\ pc = "loop"

\* one pass of the while loop: request a page, stop on an empty one, else
\* collect it, advance the offset and stop if it was short
RequestPage ==
    /\ pc = "loop"
    /\ LET response == MembersEndpoint(upstream, PageLimit, offset, wrapped)
           members == MembersOf(response)
       IN  /\ requests' = Append(requests, offset)
           /\ IF members = <<>>
              THEN /\ pc' = "returned"
                   /\ UNCHANGED <<all_members, offset>>
              ELSE /\ all_members' = all_members \o members
                   /\ offset' = offset + PageLimit
                   /\ pc' = IF IsLastPage(members, PageLimit) THEN "returned" ELSE "loop"
    /\ UNCHANGED <<raw_members, thresholds, colors, now, last_changed,
                   member_status, activity_status, summary, analysis,
                   segVars, parseVars, page,
                   hiscores, activity_feed, include_untracked, member_result,
                   upstream, wrapped>>

NextPaginate == RequestPage

\* the loop is sequential code: while it has not broken out, and the
\* endpoint answers, the next pass is taken
SpecPaginate == InitPaginate /\ [][NextPaginate]_vars /\ WF_vars(RequestPage)

----------------------------------------------------------------------------
(* The aggregators run on one record with fields missing, null or empty *)

\* displayName / username of the record: missing, null, empty or set
NameFields == {MissingS, NullS, ValS(""), ValS("Zezima")}

\* a role, in the entry or in its membership: missing, null or set
RoleFields == {MissingS, NullS, ValS("owner")}

\* type / build of the player: missing or set
KindFields == {MissingS, ValS("ironman")}

\* a tracked player and an untracked one: status flag and experience
TrackingFields == {<<ValS("active"), Val(5)>>, <<ValS("untracked"), Null>>}

InitFields ==
    /\ \E dn \in NameFields, un \in NameFields, tr \in TrackingFields,
          ty \in KindFields, bu \in KindFields, role \in RoleFields, mrole \in RoleFields :
           raw_members =
               <<Entry(Player(Val(1), un, dn, tr[1], tr[2], Null, Null, NullT, ty, bu),
                       role, Membership(mrole, MissingT))>>
    /\ thresholds = ACTIVITY_THRESHOLDS
    /\ colors = STATUS_COLORS
    /\ now \in 0 .. MaxNow
    /\ last_changed = None
    /\ member_status = NotRun
    /\ activity_status = NotRun
    /\ summary = NotRun
    /\ analysis = NotRun
    /\ NoSegments
    /\ NoParse
    /\ page = "idle"
    /\ NoClient

SpecFields == InitFields /\ [][Next]_vars

----------------------------------------------------------------------------
(* Properties of analyze_members *)

Statuses == {"active", "at_risk", "inactive", "churned", "unknown", "untracked"}

\* the sum of a record of numbers
RECURSIVE SumOver(_, _)
SumOver(f, keys) ==
    IF keys = {}
    THEN 0
    ELSE LET k == CHOOSE x \in keys : TRUE
         IN  f[k] + SumOver(f, keys \ {k})

\* analyze_members has returned a summary (it ran and did not raise)
Summarised == summary # NotRun /\ ~Raised(summary[1])

\* the record is flagged untracked by the source, or has no experience value
Bypassed(entry) ==
    \/ entry.player.status = ValS("untracked")
    \/ entry.player.exp.tag # "val"

\* how many returned members have the status
CountStatus(members, s) == Cardinality({i \in DOMAIN members : members[i].status = s})

\* rationals compared without dividing
RatLeq(p, q) == p.num * q.den <= q.num * p.den
RatOf(n) == [num |-> n, den |-> 1]

\* C1: for every roster, the empty one included, the values of counts sum
\* to total_members and tracked_members = total_members - counts["untracked"]
C1_CountsSumToTotal ==
    Summarised =>
        LET S == summary[1]
        IN  /\ SumOver(S.counts, DOMAIN S.counts) = S.total_members
            /\ S.tracked_members = S.total_members - S.counts.untracked

\* C2: the health score lies in 0..100, and is 0 whenever tracked_members is 0
C2_HealthInRange ==
    Summarised =>
        LET S == summary[1]
        IN  /\ RatLeq(RatOf(0), S.health_score)
            /\ RatLeq(S.health_score, RatOf(100))
            /\ S.tracked_members = 0 => S.health_score = Zero

\* a roster of untracked members only has been analysed: no tracked member
C2_Witness ==
    /\ Summarised
    /\ Len(raw_members) = MaxRoster
    /\ summary[1].tracked_members = 0
    /\ summary[1].health_score = Zero

\* C4: with at least one tracked member, the health score is
\* (100 active + 50 at_risk + 20 inactive + 0 churned + 25 unknown) divided
\* by the number of tracked members, not by the total
C4_HealthFormula ==
    Summarised =>
        LET S == summary[1]
            n(s) == CountStatus(S.members, s)
            tracked == Cardinality({i \in DOMAIN raw_members : ~Bypassed(raw_members[i])})
        IN  tracked >= 1 =>
                S.health_score.num * tracked =
                    (100 * n("active") + 50 * n("at_risk") + 20 * n("inactive")
                     + 0 * n("churned") + 25 * n("unknown")) * S.health_score.den

\* one untracked member and one tracked active member: total 2, tracked 1,
\* health score 100
C4_Witness ==
    /\ Summarised
    /\ summary[1].total_members = 2
    /\ summary[1].tracked_members = 1
    /\ summary[1].counts.untracked = 1
    /\ summary[1].counts.active = 1
    /\ summary[1].health_score = RatOf(100)

\* C7: total_members is the number of input records, 0 for the empty roster
C7_TotalIsRecordCount ==
    Summarised => summary[1].total_members = Len(raw_members)

\* the status and days_inactive a tracked record gets from its timestamp
ByTimestamp(entry, member) ==
    LET lc == parse_datetime(Get(entry.player.lastChangedAt))
    IN  IF lc = None
        THEN member.status = "unknown" /\ member.days_inactive = -1
        ELSE LET utc == IF lc[1].tzinfo = None THEN lc[1].wall ELSE Instant(lc[1])
                 days == (now - utc) \div TicksPerDay
             IN  /\ member.days_inactive = days
                 /\ member.status =
                        IF days <= thresholds.active THEN "active"
                        ELSE IF days <= thresholds.at_risk THEN "at_risk"
                        ELSE IF days <= thresholds.inactive THEN "inactive"
                        ELSE "churned"

\* C5: a record whose player status is "untracked" or whose experience is
\* null gets status untracked and days_inactive -1 whatever its timestamp;
\* every other record is classified by its timestamp
C5_UntrackedBypass ==
    Summarised =>
        LET S == summary[1]
        IN  /\ Len(S.members) = Len(raw_members)
            /\ \A i \in DOMAIN raw_members :
                   IF Bypassed(raw_members[i])
                   THEN /\ S.members[i].status = "untracked"
                        /\ S.members[i].days_inactive = -1
                   ELSE ByTimestamp(raw_members[i], S.members[i])

\* a record with no experience value but with a parseable timestamp, not
\* flagged by the source, came out untracked
C5_Witness ==
    /\ Summarised
    /\ \E i \in DOMAIN raw_members :
           /\ raw_members[i].player.status # ValS("untracked")
           /\ raw_members[i].player.exp.tag # "val"
           /\ parse_datetime(Get(raw_members[i].player.lastChangedAt)) # None
           /\ summary[1].members[i].status = "untracked"
           /\ summary[1].members[i].days_inactive = -1

\* C8: on the empty roster the aggregators raise nothing and return counts,
\* percentages, totals, averages and a health score that are all 0
C8_EmptyRoster ==
    raw_members = <<>> =>
        /\ summary # NotRun =>
               /\ ~Raised(summary[1])
               /\ \A k \in DOMAIN summary[1].counts : summary[1].counts[k] = 0
               /\ \A k \in DOMAIN summary[1].percentages : summary[1].percentages[k] = Zero
               /\ \A k \in DOMAIN summary[1].totals : summary[1].totals[k] = 0
               /\ \A k \in DOMAIN summary[1].averages : summary[1].averages[k] = Zero
               /\ summary[1].health_score = Zero
        /\ analysis # NotRun =>
               /\ ~Raised(analysis[1])
               /\ \A k \in DOMAIN analysis[1].status_counts : analysis[1].status_counts[k] = 0
               /\ \A k \in DOMAIN analysis[1].status_percentages :
                      analysis[1].status_percentages[k] = Zero
               /\ analysis[1].total_xp = 0 /\ analysis[1].total_ehp = 0
               /\ analysis[1].total_ehb = 0
               /\ analysis[1].avg_xp = Zero /\ analysis[1].avg_ehp = Zero
               /\ analysis[1].avg_ehb = Zero
               /\ analysis[1].health_score = Zero

\* both aggregators have run on the empty roster
C8_Witness ==
    /\ raw_members = <<>>
    /\ summary # NotRun
    /\ analysis # NotRun

\* C9: the returned members have one entry per input record, the i-th made
\* from the i-th record
C9_OrderPreserved ==
    /\ Summarised =>
           /\ Len(summary[1].members) = Len(raw_members)
           /\ \A i \in DOMAIN raw_members :
                  /\ summary[1].members[i].player_id = raw_members[i].player.id
                  /\ (summary[1].members[i].status = "untracked") = Bypassed(raw_members[i])
    /\ (analysis # NotRun /\ ~Raised(analysis[1])) =>
           /\ Len(analysis[1].members) = Len(raw_members)
           /\ \A i \in DOMAIN raw_members :
                  /\ analysis[1].members[i].player_id = raw_members[i].player.id
                  /\ analysis[1].members[i].last_changed_at =
                         parse_wom_datetime(Get(raw_members[i].player.lastChangedAt))

\* an untracked record ahead of a tracked one, through both aggregators
C9_Witness ==
    /\ Summarised
    /\ analysis # NotRun
    /\ Len(raw_members) = 2
    /\ Bypassed(raw_members[1])
    /\ ~Bypassed(raw_members[2])
    /\ summary[1].members[1].status = "untracked"
    /\ summary[1].members[2].status # "untracked"

\* the value of a numeric field, null or missing counting 0
NumberOr0(field) == IF field.tag = "val" THEN field.v ELSE 0

\* the sum of a field of the tracked records
RECURSIVE TrackedSum(_, _, _)
TrackedSum(raw, fld, i) ==
    IF i > Len(raw)
    THEN 0
    ELSE (IF Bypassed(raw[i]) THEN 0 ELSE NumberOr0(raw[i].player[fld]))
         + TrackedSum(raw, fld, i + 1)

\* C10: each total is the sum of its field over the tracked records only,
\* and each average is its total divided by tracked_members (0 with no
\* tracked member)
C10_TotalsOverTracked ==
    Summarised =>
        LET S == summary[1]
            tracked == Cardinality({i \in DOMAIN raw_members : ~Bypassed(raw_members[i])})
        IN  /\ S.totals.xp = TrackedSum(raw_members, "exp", 1)
            /\ S.totals.ehp = TrackedSum(raw_members, "ehp", 1)
            /\ S.totals.ehb = TrackedSum(raw_members, "ehb", 1)
            /\ \A k \in DOMAIN S.totals :
                   /\ S.tracked_members > 0 =>
                          S.averages[k].num * S.tracked_members = S.totals[k] * S.averages[k].den
                   /\ S.tracked_members = 0 => S.averages[k] = Zero
                   /\ tracked > 0 => S.averages[k].num * tracked = S.totals[k] * S.averages[k].den
                   /\ tracked = 0 => S.averages[k] = Zero

\* a flagged record carrying numbers next to a tracked record: the totals
\* hold the tracked record's numbers only
C10_Witness ==
    /\ Summarised
    /\ \E i, j \in DOMAIN raw_members :
           /\ raw_members[i].player.status = ValS("untracked")
           /\ raw_members[i].player.exp = Val(3)
           /\ raw_members[i].player.ehp = Val(4)
           /\ ~Bypassed(raw_members[j])
           /\ raw_members[j].player.ehp = Val(1)
    /\ summary[1].totals = [xp |-> 5, ehp |-> 1, ehb |-> 2]
    /\ summary[1].averages.xp = RatOf(5)

----------------------------------------------------------------------------
(* Properties of the classifiers *)

\* a threshold configuration of the data model: 0 <= active < at_risk < inactive
ValidThresholds(th) ==
    /\ {"active", "at_risk", "inactive"} \subseteq DOMAIN th
    /\ 0 <= th.active
    /\ th.active < th.at_risk
    /\ th.at_risk < th.inactive

\* the status the inclusive thresholds give to a number of days
Expected(d, th) ==
    CASE d <= th.active -> "active"
      [] th.active < d /\ d <= th.at_risk -> "at_risk"
      [] th.at_risk < d /\ d <= th.inactive -> "inactive"
      [] OTHER -> "churned"

\* C3: for a present instant and thresholds active < at_risk < inactive both
\* classifiers return active up to active days, at_risk up to at_risk days,
\* inactive up to inactive days and churned beyond; negative days are active
C3_InclusiveThresholds ==
    (last_changed # None /\ ValidThresholds(thresholds)) =>
        /\ member_status # NotRun =>
               /\ ~Raised(member_status[1])
               /\ member_status[1].status =
                      Expected(member_status[1].days_inactive, thresholds)
               /\ member_status[1].days_inactive < 0 => member_status[1].status = "active"
        /\ activity_status # NotRun =>
               /\ ~Raised(activity_status[1])
               /\ activity_status[1].status =
                      Expected(activity_status[1].days_inactive, thresholds)
               /\ activity_status[1].days_inactive < 0 => activity_status[1].status = "active"

\* a member exactly inactive-threshold days out is still inactive, in both copies
C3_Witness ==
    /\ last_changed # None
    /\ thresholds = ACTIVITY_THRESHOLDS
    /\ member_status # NotRun
    /\ activity_status # NotRun
    /\ member_status[1].days_inactive = thresholds.inactive
    /\ member_status[1].status = "inactive"
    /\ activity_status[1].days_inactive = thresholds.inactive
    /\ activity_status[1].status = "inactive"

\* C6: for an absent instant both classifiers return unknown, -1 and the
\* color configured for unknown (gray #95a5a6 without one), whatever the
\* thresholds dict holds and whatever the clock reads
C6_AbsentIsUnknown ==
    last_changed = None =>
        LET color == IF "unknown" \in DOMAIN colors THEN colors.unknown ELSE "#95a5a6"
        IN  /\ member_status # NotRun =>
                   member_status[1] = [status |-> "unknown", days_inactive |-> -1,
                                       color |-> color]
            /\ activity_status # NotRun =>
                   /\ ~Raised(activity_status[1])
                   /\ activity_status[1].status = "unknown"
                   /\ activity_status[1].days_inactive = -1
                   /\ activity_status[1].color = color

\* absent instant, a thresholds dict with no key and a colors dict with no
\* entry for unknown, through both classifiers
C6_Witness ==
    /\ last_changed = None
    /\ thresholds = <<>>
    /\ "unknown" \notin DOMAIN colors
    /\ member_status # NotRun
    /\ activity_status # NotRun
    /\ member_status[1].color = "#95a5a6"

----------------------------------------------------------------------------
(* Properties of the segmenters *)

\* the positions of the members with days_inactive in lo..hi
InRange(ms, lo, hi) ==
    {i \in DOMAIN ms : lo <= ms[i].days_inactive /\ ms[i].days_inactive <= hi}

\* the list holds exactly the members of member_list in min_days..max_days,
\* each once, by days_inactive non-increasing, ties in input order
ChurnRiskView(result) ==
    /\ Len(result) = Cardinality(InRange(member_list, min_days, max_days))
    /\ {result[i].player_id : i \in DOMAIN result} = InRange(member_list, min_days, max_days)
    /\ \A i \in DOMAIN result : result[i] = member_list[result[i].player_id]
    /\ \A i, j \in DOMAIN result :
           i < j => /\ result[i].days_inactive >= result[j].days_inactive
                    /\ result[i].days_inactive = result[j].days_inactive
                           => result[i].player_id < result[j].player_id

\* C11: the churn-risk filter returns exactly the members with
\* min_days <= days_inactive <= max_days, each once, ordered by days_inactive
\* non-increasing, members of equal days_inactive in their input order
C11_ChurnRiskFilter ==
    /\ at_risk # NotRun => ChurnRiskView(at_risk[1])
    /\ churn_risk # NotRun => ChurnRiskView(churn_risk[1])

\* two members of the same days_inactive, both in range, have been filtered
C11_Witness ==
    /\ at_risk # NotRun
    /\ Len(member_list) >= 2
    /\ Len(at_risk[1]) >= 2
    /\ at_risk[1][1].days_inactive = at_risk[1][2].days_inactive
    /\ at_risk[1][1].player_id = 1

\* C12: get_retention_rates returns, for every requested threshold d,
\* 100 * |{m : 0 <= m.days_inactive <= d}| / max(len(members), 1); members at
\* -1 are in no numerator but in the denominator; the empty list gives 0
C12_RetentionRate ==
    retention # NotRun =>
        /\ DOMAIN retention[1] = Elements(periods)
        /\ \A d \in Elements(periods) :
               LET rate == retention[1][d]
                   retained == Cardinality(InRange(member_list, 0, d))
                   denominator == IF Len(member_list) > 1 THEN Len(member_list) ELSE 1
               IN  /\ rate.den > 0
                   /\ rate.num * denominator = 100 * retained * rate.den
                   /\ member_list = <<>> => rate = Zero

\* a member at the sentinel next to a member active today: half are retained
C12_Witness ==
    /\ retention # NotRun
    /\ \E i \in DOMAIN member_list : member_list[i].days_inactive = -1
    /\ \E i \in DOMAIN member_list : member_list[i].days_inactive = 0
    /\ \E d \in DOMAIN retention[1] : retention[1][d] = RatOf(50)

\* every rate lies in 0..100 and the rates do not fall as the threshold grows
MonotoneRates(rates) ==
    /\ \A d \in DOMAIN rates :
           RatLeq(RatOf(0), rates[d]) /\ RatLeq(rates[d], RatOf(100))
    /\ \A d1, d2 \in DOMAIN rates : d1 < d2 => RatLeq(rates[d1], rates[d2])

HistogramRanges ==
    <<<<0, 7>>, <<8, 14>>, <<15, 30>>, <<31, 60>>, <<61, 90>>, <<91, 180>>,
      <<181, 365>>, <<366, 9999>>>>

RECURSIVE SumCounts(_, _)
SumCounts(rows, i) == IF i > Len(rows) THEN 0 ELSE rows[i].count + SumCounts(rows, i + 1)

\* the rows count the members bucket by bucket
HistogramView(rows) ==
    /\ Len(rows) = Len(HistogramRanges)
    /\ \A b \in DOMAIN rows :
           rows[b].count =
               Cardinality(InRange(member_list, HistogramRanges[b][1], HistogramRanges[b][2]))
    /\ SumCounts(rows, 1) = Cardinality(InRange(member_list, 0, 9999))
    /\ \A i \in InRange(member_list, 0, 9999) :
           Cardinality({b \in DOMAIN HistogramRanges :
               i \in InRange(member_list, HistogramRanges[b][1], HistogramRanges[b][2])}) = 1
    /\ \A i \in DOMAIN member_list :
           member_list[i].days_inactive = -1 =>
               \A b \in DOMAIN HistogramRanges :
                   i \notin InRange(member_list, HistogramRanges[b][1], HistogramRanges[b][2])

\* C14: the histogram has the buckets 0-7, 8-14, 15-30, 31-60, 61-90, 91-180,
\* 181-365, 366-9999; the counts sum to the number of members with
\* 0 <= days_inactive <= 9999, each counted in exactly one bucket, and the
\* members at -1 are counted in none
C14_Histogram ==
    /\ buckets # NotRun => HistogramView(buckets[1])
    /\ timeline # NotRun =>
           /\ HistogramView(timeline[1])
           /\ \A b \in DOMAIN timeline[1] :
                  <<timeline[1][b].min_days, timeline[1][b].max_days>> = HistogramRanges[b]

\* a member at the sentinel and a member on a bucket edge: one is counted
C14_Witness ==
    /\ buckets # NotRun
    /\ \E i \in DOMAIN member_list : member_list[i].days_inactive = -1
    /\ \E i \in DOMAIN member_list : member_list[i].days_inactive = 8
    /\ buckets[1][2].count = 1
    /\ SumCounts(buckets[1], 1) = 1

----------------------------------------------------------------------------
(* Properties of the dashboard pipeline *)

\* a tracked record (experience set, not flagged) whose timestamp is null
NullTimestampTracked(entry) ==
    /\ ~Bypassed(entry)
    /\ entry.player.lastChangedAt.tag # "val"

\* the numerator behind a rate over n members
Numerator(rate, n) == (rate.num * n) \div (rate.den * 100)

\* C15: in the pipeline of the page, a tracked member with a null timestamp
\* gets status unknown and days_inactive -1, is counted in no histogram
\* bucket and in no retention numerator: the counts and numerators are those
\* of the other members alone
C15_NullTimestampExcluded ==
    page = "rendered" =>
        LET ms == analysis[1].members
            others == Filtered(ms, [i \in DOMAIN ms |-> ~NullTimestampTracked(raw_members[i])])
            alone == get_activity_timeline(others)
            rates == calculate_retention_rates(others, DashboardPeriods)
        IN  /\ \A i \in DOMAIN ms :
                   NullTimestampTracked(raw_members[i]) =>
                       ms[i].activity_status = "unknown" /\ ms[i].days_inactive = -1
            /\ \A b \in DOMAIN timeline[1] : timeline[1][b].count = alone[b].count
            /\ \A d \in DOMAIN wom_retention[1] :
                   Numerator(wom_retention[1][d], Len(ms)) = Numerator(rates[d], Len(others))

----------------------------------------------------------------------------
(* Properties of group_by_role *)

\* the key a member is filed under: its role, "member" without one
RoleKey(m) == IF "role" \in DOMAIN m THEN m.role ELSE ValS("member")

\* C16: the lists of group_by_role partition the members: each member is in
\* exactly one list, the one keyed by its role ("member" when it has none),
\* the members of a list are in input order, and no list is empty
C16_RolePartition ==
    role_groups # NotRun =>
        LET G == role_groups[1]
        IN  /\ \A k \in DOMAIN G : G[k] # <<>>
            /\ \A i \in DOMAIN member_list :
                   /\ RoleKey(member_list[i]) \in DOMAIN G
                   /\ \A k \in DOMAIN G :
                          Cardinality({p \in DOMAIN G[k] : G[k][p] = member_list[i]})
                              = IF k = RoleKey(member_list[i]) THEN 1 ELSE 0
            /\ \A k \in DOMAIN G :
                   /\ \A p \in DOMAIN G[k] :
                          \E i \in DOMAIN member_list : G[k][p] = member_list[i]
                   /\ \A p, q \in DOMAIN G[k] :
                          p < q => G[k][p].player_id < G[k][q].player_id

\* two owners with a member that has no role key between them
C16_Witness ==
    /\ role_groups # NotRun
    /\ Len(member_list) = 3
    /\ "role" \notin DOMAIN member_list[2]
    /\ DOMAIN role_groups[1] = {ValS("owner"), ValS("member")}
    /\ role_groups[1][ValS("owner")] = <<member_list[1], member_list[3]>>
    /\ role_groups[1][ValS("member")] = <<member_list[2]>>

----------------------------------------------------------------------------
(* Properties of the classification over a roster *)

\* the order active, at_risk, inactive, churned
Rank(status) ==
    CASE status = "active" -> 1
      [] status = "at_risk" -> 2
      [] status = "inactive" -> 3
      [] status = "churned" -> 4

ByDays == {"active", "at_risk", "inactive", "churned"}

\* C17: for fixed thresholds at a fixed instant, a member with no more
\* days_inactive than another has a status that is not later in the order
\* active, at_risk, inactive, churned
C17_ClassifierMonotone ==
    Summarised =>
        LET ms == summary[1].members
        IN  \A i, j \in DOMAIN ms :
                (/\ ms[i].status \in ByDays
                 /\ ms[j].status \in ByDays
                 /\ ms[i].days_inactive <= ms[j].days_inactive)
                    => Rank(ms[i].status) <= Rank(ms[j].status)

\* a member last active in the future and one past the at_risk threshold
C17_Witness ==
    /\ Summarised
    /\ Len(summary[1].members) = 2
    /\ summary[1].members[1].days_inactive < 0
    /\ summary[1].members[1].status = "active"
    /\ summary[1].members[2].days_inactive > summary[1].members[1].days_inactive
    /\ summary[1].members[2].status = "inactive"

\* C20: in every summary of analyze_members a member has days_inactive -1 if
\* and only if its status is unknown or untracked, members last active in
\* the future included
C20_SentinelIffNoData ==
    Summarised =>
        \A i \in DOMAIN summary[1].members :
            (summary[1].members[i].days_inactive = -1)
                <=> (summary[1].members[i].status \in {"unknown", "untracked"})

----------------------------------------------------------------------------
(* Properties of the timestamp parsers *)

\* what the value holds is an ISO date
Parseable(field) == field.tag = "val" /\ field.v.kind \in {"Z", "offset", "naive"}

\* the parser returned absent for a value that is no date, and a
\* timezone-aware datetime for a date
AbsentOrAware(field, result) ==
    /\ ~Parseable(field) => result = None
    /\ Parseable(field) => result # None /\ result[1].tzinfo # None

\* C19: the parsers never raise; a null, empty or unparseable timestamp gives
\* absent, and every parseable one (Z suffix, numeric offset or none) gives a
\* timezone-aware instant
C19_ParserAbsentOrAware ==
    /\ parsed # NotRun => AbsentOrAware(timestamp, parsed[1])
    /\ wom_parsed # NotRun => AbsentOrAware(timestamp, wom_parsed[1])

----------------------------------------------------------------------------
(* Properties of the aggregators' results, continued *)

\* analyze_clan_activity has returned an analysis (it ran and did not raise)
Analysed == analysis # NotRun /\ ~Raised(analysis[1])

\* how many returned classifications have the status
CountActivity(members, s) ==
    Cardinality({i \in DOMAIN members : members[i].activity_status = s})

\* C21: for every roster, the counts mapping either aggregator returns has
\* exactly the six keys active, at_risk, inactive, churned, unknown and
\* untracked, with 0 for every status no member has
C21_SixCountKeys ==
    /\ Summarised =>
           /\ DOMAIN summary[1].counts = Statuses
           /\ \A s \in Statuses :
                  CountStatus(summary[1].members, s) = 0 => summary[1].counts[s] = 0
    /\ Analysed =>
           /\ DOMAIN analysis[1].status_counts = Statuses
           /\ \A s \in DOMAIN analysis[1].status_counts :
                  CountActivity(analysis[1].members, s) = 0
                      => analysis[1].status_counts[s] = 0

\* a thresholds dict with its three keys that fails active < at_risk < inactive
NonIncreasing(th) ==
    /\ {"active", "at_risk", "inactive"} \subseteq DOMAIN th
    /\ ~(th.active < th.at_risk /\ th.at_risk < th.inactive)

\* the classifier did not classify: it was not run, or it raised
Rejected(result) == result = NotRun \/ Raised(result[1])

\* C24: a thresholds configuration that is not strictly increasing is
\* rejected before any record is classified: neither classifier returns a
\* status for a present last-activity datetime under such a configuration
C24_NonIncreasingRejected ==
    (NonIncreasing(thresholds) /\ last_changed # None)
        => Rejected(member_status) /\ Rejected(activity_status)

\* the time from the last activity to now, a naive datetime read as UTC
Elapsed == now - (IF last_changed[1].tzinfo = None
                  THEN last_changed[1].wall
                  ELSE last_changed[1].wall - last_changed[1].tzinfo[1])

\* d is the floor of the elapsed time over one day
IsFloorDays(d) == d * TicksPerDay <= Elapsed /\ Elapsed < (d + 1) * TicksPerDay

\* C25: for a present last-activity instant, days_inactive is the floor of
\* (now - last_activity) / 1 day for elapsed times of either sign: [0, 1 day)
\* gives 0 and [-1 day, 0) gives -1
C25_FloorDays ==
    /\ (last_changed # None /\ ~Rejected(member_status))
           => IsFloorDays(member_status[1].days_inactive)
    /\ (last_changed # None /\ ~Rejected(activity_status))
           => IsFloorDays(activity_status[1].days_inactive)

\* both classifiers ran on an instant less than a day ahead of now and not a
\* whole number of days away, and returned -1
C25_Witness ==
    /\ last_changed # None
    /\ ~Rejected(member_status)
    /\ ~Rejected(activity_status)
    /\ Elapsed < 0
    /\ Elapsed > -TicksPerDay
    /\ member_status[1].days_inactive = -1
    /\ activity_status[1].days_inactive = -1

\* an untracked record: flagged untracked, no experience, no timestamp
Placeholder(entry) ==
    /\ entry.player.status = ValS("untracked")
    /\ entry.player.exp = Null
    /\ entry.player.lastChangedAt = NullT

\* the roster with its untracked records removed
WithoutUntracked(raw) == SelectSeq(raw, LAMBDA entry : ~Placeholder(entry))

\* C26: the health score analyze_clan_activity reports for a roster is the
\* one it reports for the same roster with the untracked records removed
C26_HealthIgnoresUntracked ==
    Analysed =>
        analysis[1].health_score =
            analyze_clan_activity(WithoutUntracked(raw_members),
                                  thresholds, colors, now).health_score

\* a record with statistics: experience set, not flagged untracked
TrackedRecord(entry) ==
    /\ entry.player.exp.tag = "val"
    /\ entry.player.status # ValS("untracked")

\* both aggregators returned a result for a non-empty roster of tracked records
BothOnTracked ==
    /\ Summarised
    /\ Analysed
    /\ raw_members # <<>>
    /\ \A i \in DOMAIN raw_members : TrackedRecord(raw_members[i])

\* C30: on a non-empty roster of tracked records analyze_members and
\* analyze_clan_activity agree at the same instant on each member's status
\* and days_inactive, on the counts of active, at_risk, inactive, churned and
\* unknown, on total_members, the totals, the averages and the health score
C30_AggregatorsAgree ==
    BothOnTracked =>
        LET s == summary[1]
            a == analysis[1]
        IN  /\ Len(s.members) = Len(a.members)
            /\ \A i \in DOMAIN s.members :
                   /\ s.members[i].status = a.members[i].activity_status
                   /\ s.members[i].days_inactive = a.members[i].days_inactive
            /\ \A k \in DOMAIN a.status_counts : s.counts[k] = a.status_counts[k]
            /\ s.total_members = a.total_members
            /\ s.totals.xp = a.total_xp
            /\ s.totals.ehp = a.total_ehp
            /\ s.totals.ehb = a.total_ehb
            /\ s.averages.xp = a.avg_xp
            /\ s.averages.ehp = a.avg_ehp
            /\ s.averages.ehb = a.avg_ehb
            /\ s.health_score = a.health_score

\* both ran on two tracked records, one with a Z timestamp and numbers, the
\* other with null ehp/ehb and no usable timestamp
C30_Witness ==
    /\ BothOnTracked
    /\ Len(raw_members) = 2
    /\ raw_members[1].player.lastChangedAt.tag = "val"
    /\ raw_members[1].player.lastChangedAt.v.kind = "Z"
    /\ raw_members[1].player.ehp = Val(1)
    /\ raw_members[2].player.ehp = Null
    /\ summary[1].members[2].status = "unknown"

\* the field holds a usable string: set, not null, not empty
Present(field) == field.tag = "val" /\ field.v # ""

\* the name the fallbacks give a record
FallbackName(player) ==
    IF Present(player.displayName) THEN player.displayName
    ELSE IF Present(player.username) THEN player.username
    ELSE ValS("Unknown")

\* C22: for every record analyze_members sets the member's name to the
\* display name if present, else the username if present, else "Unknown";
\* the role to "member" when the record has no role; and a missing type and
\* build to "unknown"/"unknown" for an untracked record, "regular"/"main"
\* for a tracked one
C22_FieldFallbacks ==
    Summarised =>
        \A i \in DOMAIN raw_members :
            LET entry == raw_members[i]
                m == summary[1].members[i]
            IN  /\ m.username = FallbackName(entry.player)
                /\ (entry.role.tag = "missing" /\ entry.membership.role.tag = "missing")
                       => m.role = ValS("member")
                /\ entry.player.type.tag = "missing"
                       => m.type = ValS(IF Bypassed(entry) THEN "unknown" ELSE "regular")
                /\ entry.player.build.tag = "missing"
                       => m.build = ValS(IF Bypassed(entry) THEN "unknown" ELSE "main")

\* a tracked record with a null display name, a username, and no role, type
\* or build was summarised under its username with the tracked defaults
C22_Witness ==
    /\ Summarised
    /\ Len(raw_members) = 1
    /\ ~Bypassed(raw_members[1])
    /\ raw_members[1].player.displayName = NullS
    /\ raw_members[1].role = MissingS
    /\ raw_members[1].membership.role = MissingS
    /\ raw_members[1].player.type = MissingS
    /\ raw_members[1].player.build = MissingS
    /\ summary[1].members[1].username = ValS("Zezima")
    /\ summary[1].members[1].role = ValS("member")
    /\ summary[1].members[1].type = ValS("regular")
    /\ summary[1].members[1].build = ValS("main")

----------------------------------------------------------------------------
(* Properties of the page run and of the API client *)

\* C23: when the roster fetch fails with any transport error or returns an
\* empty list, fetch_members returns an empty list and the page run ends in
\* the "no data" state, the analysis not run and no exception raised
C23_FetchFailureNoData ==
    (page # "idle" /\ (~hiscores.ok \/ hiscores.body = <<>>))
        => /\ fetch_members(hiscores) = Body(<<>>)
           /\ raw_members = <<>>
           /\ page = "no_data"
           /\ analysis = NotRun

\* the page was run on a fetch that failed in the transport, not with an
\* HTTP status, and shows "no data"
C23_Witness ==
    /\ page = "no_data"
    /\ ~hiscores.ok
    /\ hiscores.error = "ConnectionError"

\* get_members merged the hiscores with a replayed feed
Replayed ==
    /\ member_result # NotRun
    /\ hiscores.ok
    /\ include_untracked
    /\ activity_feed.ok

\* the usernames, lowered, that appear in the feed
FeedNames ==
    {Lower(activity_feed.body[i].player.username.v) : i \in DOMAIN activity_feed.body}

\* the events of user u that add or remove a member (the feed is newest first)
MembershipEvents(u) ==
    {i \in DOMAIN activity_feed.body :
        /\ Lower(activity_feed.body[i].player.username.v) = u
        /\ activity_feed.body[i].type.v \in {"joined", "left", "kicked", "banned"}}

\* the smallest element of a non-empty set of numbers
Least(S) == CHOOSE i \in S : \A j \in S : i <= j

\* the most recent of those events is a join
LastJoined(u) ==
    /\ MembershipEvents(u) # {}
    /\ activity_feed.body[Least(MembershipEvents(u))].type.v = "joined"

\* the role changes of user u after that join
LaterRoleChanges(u) ==
    {i \in DOMAIN activity_feed.body :
        /\ i < Least(MembershipEvents(u))
        /\ Lower(activity_feed.body[i].player.username.v) = u
        /\ activity_feed.body[i].type.v = "changed_role"}

\* the role of an event, "member" when it has none
EventRole(event) == IF event.role.tag = "missing" THEN ValS("member") ELSE event.role

\* the role user u ends with
FinalRole(u) ==
    IF LaterRoleChanges(u) = {}
    THEN EventRole(activity_feed.body[Least(MembershipEvents(u))])
    ELSE EventRole(activity_feed.body[Least(LaterRoleChanges(u))])

\* positions of the placeholders of user u in the result
PlaceholdersOf(u) ==
    {i \in DOMAIN member_result[1].body :
        /\ member_result[1].body[i].player.status = ValS("untracked")
        /\ member_result[1].body[i].player.username = ValS(u)}

\* the usernames of the hiscores, lowered
HiscoresNames ==
    {Lower(hiscores.body[i].player.username.v) : i \in DOMAIN hiscores.body}

\* C27: get_members replays the feed from the oldest event to the newest: a
\* username gets a placeholder iff it is not tracked and its most recent
\* joined/left/kicked/banned event is a join; it gets exactly one, with the
\* role of the latest changed_role after that join, or the join's role; a
\* changed_role for a user who is not a member has no effect
C27_FeedReplay ==
    Replayed =>
        /\ \A u \in FeedNames :
               /\ Cardinality(PlaceholdersOf(u)) =
                      IF u \notin HiscoresNames /\ LastJoined(u) THEN 1 ELSE 0
               /\ \A i \in PlaceholdersOf(u) :
                      member_result[1].body[i].membership.role = FinalRole(u)
        /\ \A i \in DOMAIN member_result[1].body :
               member_result[1].body[i].player.status = ValS("untracked")
                   => Lower(member_result[1].body[i].player.username.v) \in FeedNames

\* a user joined with a role, left, was given a role while away and joined
\* again with none: one placeholder with role "member"
C27_Witness ==
    /\ Replayed
    /\ hiscores.body = <<>>
    /\ Len(activity_feed.body) = 3
    /\ \A i \in 1 .. 3 : activity_feed.body[i].player.username = ValS("Bob")
    /\ activity_feed.body[3].type = ValS("left")
    /\ activity_feed.body[2].type = ValS("changed_role")
    /\ activity_feed.body[2].role = ValS("owner")
    /\ activity_feed.body[1].type = ValS("joined")
    /\ activity_feed.body[1].role = MissingS
    /\ Len(member_result[1].body) = 1
    /\ member_result[1].body[1].player.username = ValS("bob")
    /\ member_result[1].body[1].membership.role = ValS("member")

\* C28: the list get_members returns starts with every hiscores record,
\* unchanged and in hiscores order, with untracked placeholders only after
\* them; when include_untracked is false or the activity fetch raises, the
\* result is exactly the hiscores list and no error is raised
C28_TrackedFirst ==
    (member_result # NotRun /\ hiscores.ok) =>
        LET result == member_result[1]
            n == Len(hiscores.body)
        IN  /\ result.ok
            /\ Len(result.body) >= n
            /\ SubSeq(result.body, 1, n) = hiscores.body
            /\ \A i \in n + 1 .. Len(result.body) :
                   /\ result.body[i].player.status = ValS("untracked")
                   /\ result.body[i].player.exp = Null
            /\ (~include_untracked \/ ~activity_feed.ok) => result.body = hiscores.body

\* the hiscores record came back first with the placeholder of a user of the
\* feed after it
C28_Witness ==
    /\ member_result # NotRun
    /\ hiscores.ok
    /\ Len(hiscores.body) = 1
    /\ include_untracked
    /\ activity_feed.ok
    /\ Len(member_result[1].body) = 2
    /\ member_result[1].body[1] = hiscores.body[1]
    /\ member_result[1].body[2].player.username = ValS("amy")

\* how many members the endpoint holds from the offset on, up to one page
PageLength(off) ==
    IF Len(upstream) - off >= PageLimit THEN PageLimit
    ELSE IF Len(upstream) - off > 0 THEN Len(upstream) - off
    ELSE 0

\* the requests went to offsets 0, 50, 100, ..., every page before the last
\* request was full, the call has returned exactly when the last page
\* requested was empty or short, and it returned every member once, in order
PaginationSafe ==
    /\ \A i \in DOMAIN requests : requests[i] = (i - 1) * PageLimit
    /\ \A i \in DOMAIN requests :
           i < Len(requests) => PageLength(requests[i]) = PageLimit
    /\ pc = "returned" <=>
           (requests # <<>> /\ PageLength(requests[Len(requests)]) < PageLimit)
    /\ pc = "returned" => all_members = upstream

\* C29: get_group_members_paginated requests pages at offsets 0, 50, 100, ...
\* and stops at the first page that is empty or shorter than 50; against an
\* endpoint that holds finitely many members and honours limit/offset the
\* loop terminates and returns every member exactly once in upstream order,
\* an exact multiple of 50 included
C29_Pagination == [](PaginationSafe) /\ <>(pc = "returned")

\* the endpoint held exactly two full pages: the third request came back
\* empty and the call returned all the members
C29_Witness ==
    /\ pc = "returned"
    /\ Len(upstream) = 2 * PageLimit
    /\ requests = <<0, PageLimit, 2 * PageLimit>>
    /\ all_members = upstream
====
